---- MODULE Spec2Model ----
(***************************************************************************)
(* Verification model of the os1test-dev AArch64 kernel: physical page     *)
(* allocator, page tables, scheduler and IRQ path, VirtIO queues,          *)
(* compositor terminal write path and the input rings.                     *)
(*                                                                         *)
(* Physical addresses are counted in pages: address a names the frame      *)
(* whose page frame number is a - MEMORY_BASE.  Every subsystem has its    *)
(* own specification (SpecPmm, SpecVmm, ...) over the shared variables;    *)
(* the variables of the other subsystems stay at their boot values.        *)
(***************************************************************************)
EXTENDS Integers, Sequences, FiniteSets, TLC

VARIABLES
  \* ---- physical memory manager (pmm.c)
  zones,        \* zones[z] = [start_pfn, end_pfn, free_pages, bitmap]
  page_array,   \* page_array[pfn] = [flags, refcount]
  free_pages,   \* global statistic
  total_pages,  \* set by pmm_init
  mem,          \* contents of the frames used as translation tables
  pmm_out,      \* history: frames handed out and not yet freed
  pmm_ret,      \* history: frames returned by the last allocator call
  pmm_strays,   \* history: number of frees of frames that were not handed out
  pmm_last      \* history: the last allocator call [op, addr, count, size, align]

VARIABLES
  \* ---- virtual memory manager (vmm.c) and the loader's mappings (elf.c)
  kernel_pgd,   \* address of the kernel's top-level table
  pgds,         \* sequence of top-level tables made by vmm_create_pgd
  vmm_last,     \* history: the last page-table operation [op, pgd, va]
  vmm_loaded,   \* history: vmm_loaded[pgd][va] = frame the loader put at va
  vmm_ops       \* history: number of page-table operations so far

VARIABLES
  \* ---- scheduler (sched.c), IRQ dispatch (gic.c), timer (timer.c)
  process_pool,     \* sequence of pids, one per populated slot
  process_count,
  current_pid,      \* slot index of the running process, -1 before the first
  current_process,  \* pid of the running process or NULL
  context,          \* context[pid] = the frame the process resumes from
  kstack,           \* kstack[pid] = frames saved on the kernel stack of pid
  running,          \* pid whose kernel stack the CPU executes on, or NULL
  in_irq,           \* irq_handler is executing (IRQs masked)
  irq_regs,         \* irq_handler's argument regs
  ret_regs,         \* irq_handler's local ret_regs
  pending,          \* interrupt lines pending at the GIC
  jiffies,
  restored,         \* history: the last frame handed to the exception exit
  picks,            \* history: slots selected by schedule(), oldest first
  entries,          \* history: number of exception entries so far
  sched_mode,       \* "boot", "run", or "halt" after a return through a dead frame
  proc_state,       \* proc_state[pid] = the state field of the process
  ttbr0,            \* TTBR0_EL1: the translation table installed
  esr_el1,          \* ESR_EL1: exception class of the last synchronous entry
  svc,              \* svc[pid] = the process's call into syscall_handler
  pstate_i,         \* PSTATE.I of the CPU in the scheduler scenario
  gic_log           \* history: passes of the irq_handler loop, latest invocation

schedVars == <<process_pool, process_count, current_pid, current_process,
               context, kstack, running, in_irq, irq_regs, ret_regs, pending,
               jiffies, restored, picks, entries, sched_mode, proc_state,
               ttbr0, esr_el1, svc, pstate_i, gic_log>>

VARIABLES
  \* ---- synchronous virtqueue of the block or the GPU driver
  vq_kind,       \* "blk" or "gpu": the driver under analysis
  vq_desc,       \* buffer addresses of the descriptor chain at desc[0..]
  vq_avail_idx,  \* avail->idx
  vq_used_idx,   \* used->idx
  vq_kick,       \* the notify register was written and the device has work
  vq_dev_idx,    \* number of available entries the device has consumed
  vq_pc,         \* vq_pc[c] = position of context c in the driver
  vq_pages,      \* vq_pages[c] = <<cmd_page, resp_page>> of virtio_gpu_flush
  vq_wait,       \* vq_wait[c] = wait_idx
  vq_sends,      \* vq_sends[c] = sends left in the current flush
  vq_active,     \* the context executing on the CPU
  vq_resume,     \* the context the input IRQ interrupted
  vq_started,    \* history: requests begun so far
  vq_sampled     \* history: vq_sampled[c] = wait_idx taken in this request

VARIABLES
  \* ---- terminal write path of the compositor (compositor.c, graphics.c)
  irq_masked,    \* PSTATE.I: IRQs are masked
  ctx_buffer,    \* g_ctx.buffer: ScreenBuffer or the buffer of a window
  cw_pc,         \* position of the caller in compositor_window_write
  cw_win,        \* win_id of the call
  cw_chars,      \* characters of buf not yet processed
  cw_saved,      \* the local screen_buffer
  win_term,      \* win_term[id] = [cursor_x, cursor_y, escape_state]
  cw_seen        \* history: g_ctx.buffer as found by the last IRQ handler run

VARIABLES
  \* ---- VirtIO input event queue and the input rings (virtio_input.c,
  \*      keyboard.c)
  in_avail_ring,     \* dev->avail->ring
  in_avail_idx,      \* dev->avail->idx
  in_used_ring,      \* dev->used->ring (descriptor ids)
  in_used_idx,       \* dev->used->idx
  in_last_used_idx,  \* dev->last_used_idx
  in_events,         \* dev->events[id] = [type, serial]
  in_dev_idx,        \* number of available entries the device has taken
  in_isr,            \* interrupt status of the device
  in_handler,        \* "idle", or "drain" while virtio_input_handler runs
  input_buffer,
  input_head,
  input_tail,
  kb_buffer,
  kb_head,
  kb_tail,
  rd_pc,             \* position of the syscall in keyboard_read_char_nonblock
  rd_event,          \* the local event of keyboard_poll
  rd_tail,           \* the value of input_tail loaded by virtio_input_poll
  in_gen,            \* history: events the device has delivered
  in_kept,           \* history: events added while the event ring had room
  in_polled,         \* history: events virtio_input_poll has returned
  in_last_polled,    \* history: serial of the last event returned
  kb_kept,           \* history: characters added to the keyboard ring
  kb_popped,         \* history: characters returned to sys_read
  kb_last_popped     \* history: serial of the last character returned

VARIABLES
  \* ---- the program loader (elf.c)
  elf_last,      \* history: the last process_load_elf [pgd, phdrs, ret, n]
  frame_bytes    \* frame_bytes[pfn][i] = byte i of the frame

VARIABLES
  \* ---- windows, mouse and kernel heap (compositor.c, kmalloc.c) and the
  \*      keyboard read of sys_read (syscall.c)
  windows,             \* windows[slot] = struct window
  window_count,
  next_window_id,
  mouse_x,
  mouse_y,
  dragging_window_id,
  drag_off_x,
  drag_off_y,
  heap,                \* heap[a] = content of heap cell a
  heap_ptr,
  free_list,           \* block addresses, head of the list first
  wm_last,             \* history: the last compositor call
  wm_ops,              \* history: compositor calls and input events so far
  wm_ids,              \* history: ids compositor_create_window has returned
  screen,              \* screen[y * SCREEN_W + x] = pixel of the frame buffer
  screen_fresh,        \* history: nothing shown has changed since the last
                       \* compositor_render
  sr_pc,               \* sr_pc[p] = position of process p in sys_read
  sr_last              \* history: the last character sys_read delivered

VARIABLES
  \* ---- the terminal emulator of a window (compositor_window_write)
  tw_term,       \* the window's terminal state and its character cells
  tw_size,       \* <<width, height>> of the window in pixels
  tw_last,       \* history: the byte written last
  tw_n,          \* history: the number of bytes written so far
  tw_ex,         \* history: tw_n while the bytes are a prefix of SgrExample
  tw_irq         \* IRQs are unmasked inside the write

VARIABLES
  \* ---- the callers of the kernel heap (kmalloc.c)
  km_live,       \* history: km_live[ptr] = size requested for the block at ptr
  km_last        \* history: the last call [op, ptr, size, ret, n]

VARIABLES
  \* ---- allocator calls of two contexts that pre-empt each other (pmm.c)
  pr_pc,         \* pr_pc[t] = position of context t in its call
  pr_page,       \* pr_page[t] = frame number the call works on
  pr_rc,         \* pr_rc[t] = value of pg->refcount loaded by --pg->refcount
  pr_z,          \* pr_z[t] = zone whose lock the call takes
  pr_next,       \* pr_next[t] = <<locked section, position after the unlock>>
  pr_flags,      \* pr_flags[t] = DAIF.I saved by spin_lock_irqsave
  pr_i,          \* pr_i[t] = PSTATE.I of context t
  pr_lock,       \* pr_lock[z] = zones[z].lock
  pr_n           \* history: number of calls begun

kmVars == <<km_live, km_last>>
prVars == <<pr_pc, pr_page, pr_rc, pr_z, pr_next, pr_flags, pr_i, pr_lock,
            pr_n>>
elfVars == <<elf_last, frame_bytes>>
twVars == <<tw_term, tw_size, tw_last, tw_n, tw_ex, tw_irq>>
wmVars == <<windows, window_count, next_window_id, mouse_x, mouse_y,
            dragging_window_id, drag_off_x, drag_off_y, heap, heap_ptr,
            free_list, wm_last, wm_ops, wm_ids, screen, screen_fresh, sr_pc,
            sr_last>>
inVars == <<in_avail_ring, in_avail_idx, in_used_ring, in_used_idx,
            in_last_used_idx, in_events, in_dev_idx, in_isr, in_handler,
            input_buffer, input_head, input_tail, kb_buffer, kb_head, kb_tail,
            rd_pc, rd_event, rd_tail, in_gen, in_kept, in_polled, in_last_polled,
            kb_kept, kb_popped, kb_last_popped>>
cwVars == <<irq_masked, ctx_buffer, cw_pc, cw_win, cw_chars, cw_saved,
            win_term, cw_seen>>
pmmVars == <<zones, page_array, free_pages, total_pages, mem, pmm_out, pmm_ret,
             pmm_strays, pmm_last>>
vmmVars == <<kernel_pgd, pgds, vmm_last, vmm_loaded, vmm_ops>>
vqVars == <<vq_kind, vq_desc, vq_avail_idx, vq_used_idx, vq_kick, vq_dev_idx,
            vq_pc, vq_pages, vq_wait, vq_sends, vq_active, vq_resume,
            vq_started, vq_sampled>>

nonPmmVars == <<vmmVars, schedVars, vqVars, cwVars, inVars, elfVars, wmVars, twVars, kmVars, prVars>>
nonVmmVars == <<schedVars, vqVars, cwVars, inVars, elfVars, wmVars, twVars, kmVars, prVars>>
nonSchedVars == <<pmmVars, vmmVars, vqVars, cwVars, inVars, elfVars, wmVars, twVars, kmVars, prVars>>
nonVqVars == <<vmmVars, schedVars, cwVars, inVars, elfVars, wmVars, twVars, kmVars, prVars>>
nonCwVars == <<pmmVars, vmmVars, schedVars, vqVars, inVars, elfVars, wmVars, twVars, kmVars, prVars>>
nonInVars == <<pmmVars, vmmVars, schedVars, vqVars, cwVars, elfVars, wmVars, twVars, kmVars, prVars>>
\* the compositor calls also write PSTATE.I (irq_masked) and sys_read takes
\* characters from the keyboard ring
cwRest == <<ctx_buffer, cw_pc, cw_win, cw_chars, cw_saved, win_term, cw_seen>>
inRest == <<in_avail_ring, in_avail_idx, in_used_ring, in_used_idx,
            in_last_used_idx, in_events, in_dev_idx, in_isr, in_handler,
            input_buffer, input_head, input_tail, rd_pc, rd_event, rd_tail,
            in_gen, in_kept, in_polled, in_last_polled, kb_kept, kb_popped,
            kb_last_popped>>
nonWmVars == <<pmmVars, vmmVars, schedVars, vqVars, cwRest, inRest, elfVars, twVars, kmVars, prVars>>
nonTwVars == <<pmmVars, vmmVars, schedVars, vqVars, cwVars, inVars, elfVars, wmVars, kmVars, prVars>>
nonKmVars == <<pmmVars, vmmVars, schedVars, vqVars, cwVars, inVars, elfVars, wmVars, twVars, prVars>>
nonPrVars == <<pmmVars, vmmVars, schedVars, vqVars, cwVars, inVars, elfVars, wmVars, twVars, kmVars>>

----------------------------------------------------------------------------
(* Bounds of the model *)

\* page frames in the DMA zone (DMA_ZONE_END - MEMORY_BASE, scaled down)
DmaPages == 2
\* page frames in the normal zone of the allocator specification
NormalPages == 3
\* frames of the kernel image, reserved by pmm_init, starting at frame 1
KernelPages == 1
\* largest count passed to pmm_alloc_pages
MaxCount == 2
\* frees of frames that are not handed out (each wraps the 32-bit refcount)
MaxStray == 1
\* MEMORY_BASE in pages: addresses below it are not RAM
MEMORY_BASE == 2
\* PAGE_SIZE is 2 ^ PAGE_SHIFT bytes (12, scaled down)
PAGE_SHIFT == 1
PAGE_SIZE == 2 ^ PAGE_SHIFT
\* width of size_t in bits (64, scaled down)
SizeBits == 5
SizeMod == 2 ^ SizeBits
\* largest alignment passed to pmm_alloc_aligned is 2 ^ MaxAlignLog pages
MaxAlignLog == 2

----------------------------------------------------------------------------
(* Program constants *)

NULL == 0
ZONE_DMA == 0
ZONE_NORMAL == 1

\* Bind(v, F): F applied to the value of v, with v computed once
Bind(v, F(_)) == CHOOSE y \in {F(x) : x \in {v}} : TRUE

Min(a, b) == IF a < b THEN a ELSE b
Max(a, b) == IF a > b THEN a ELSE b

----------------------------------------------------------------------------
(* Physical memory manager *)

\* A uint32_t v is held as the integer congruent to it modulo 2^32 that lies
\* in -2^31 .. 2^31 - 1 (the checker's integers are 32 bits wide): 0 - 1 is
\* held as -1, which stands for 0xFFFFFFFF, and v > 0 is "v is not zero".
u32_dec(v) == v - 1
u32_gt0(v) == v # 0

phys_to_pfn(phys) == phys
pfn_to_phys(pfn) == pfn

\* faulty variant of bitmap_set: the bit is left clear
bitmap_set_dropped(bitmap, bit) == bitmap
bitmap_set(bitmap, bit) == [bitmap EXCEPT ![bit] = 1]
bitmap_clear(bitmap, bit) == [bitmap EXCEPT ![bit] = 0]
bitmap_test(bitmap, bit) == bitmap[bit] # 0

RECURSIVE bitmap_find_free(_, _, _)
bitmap_find_free(bitmap, start, end) ==
  IF start >= end THEN -1
  ELSE IF ~bitmap_test(bitmap, start) THEN start
  ELSE bitmap_find_free(bitmap, start + 1, end)

RECURSIVE find_contiguous_from(_, _, _, _, _, _)
find_contiguous_from(bitmap, i, end, count, found, first) ==
  IF i >= end THEN -1
  ELSE IF ~bitmap_test(bitmap, i)
       THEN LET f == IF found = 0 THEN i ELSE first
            IN  IF found + 1 = count THEN f
                ELSE find_contiguous_from(bitmap, i + 1, end, count, found + 1, f)
       ELSE find_contiguous_from(bitmap, i + 1, end, count, 0, first)

bitmap_find_contiguous(bitmap, start, end, count) ==
  find_contiguous_from(bitmap, start, end, count, 0, 0)

\* number of entries of a translation table (512, scaled down)
NIdx == 4
Idx == 0 .. (NIdx - 1)

\* a translation-table entry; PTE0 is the all-zero word
PTE0 == [valid |-> FALSE, addr |-> 0, flags |-> {}]
ZeroPage == [i \in Idx |-> PTE0]

\* The allocator state handled by the operators below.
PmmState == [zones |-> zones, page_array |-> page_array,
             free_pages |-> free_pages, mem |-> mem]

zone_init(start_pfn, end_pfn) ==
  [start_pfn |-> start_pfn, end_pfn |-> end_pfn,
   free_pages |-> end_pfn - start_pfn,
   bitmap |-> [i \in 0 .. (end_pfn - start_pfn - 1) |-> 0]]

KernelFrames == 1 .. KernelPages

\* pmm_init for a machine with `total` page frames
pmm_init(total) ==
  LET dma_end == DmaPages
      z0 == zone_init(0, dma_end)
      z1 == zone_init(dma_end, total)
      resD == {p \in KernelFrames : p < dma_end}
      resN == {p \in KernelFrames : p >= dma_end}
  IN  [zones |->
         (ZONE_DMA :> [z0 EXCEPT
                         !.bitmap = [i \in DOMAIN z0.bitmap |->
                                       IF i \in resD THEN 1 ELSE 0],
                         !.free_pages = z0.free_pages - Cardinality(resD)]
          @@
          ZONE_NORMAL :> [z1 EXCEPT
                         !.bitmap = [i \in DOMAIN z1.bitmap |->
                                       IF i + dma_end \in resN THEN 1 ELSE 0],
                         !.free_pages = z1.free_pages - Cardinality(resN)]),
       page_array |->
         [p \in 0 .. (total - 1) |->
            IF p \in KernelFrames
            THEN [flags |-> {"PG_RESERVED", "PG_KERNEL"}, refcount |-> 1]
            ELSE [flags |-> {}, refcount |-> 0]],
       free_pages |-> total - Cardinality(KernelFrames),
       mem |-> [p \in 0 .. (total - 1) |-> ZeroPage]]

\* zone_alloc_page: first clear bit of the zone, or NULL
zone_alloc_page(st, z) ==
  LET zn == st.zones[z]
      pfn == bitmap_find_free(zn.bitmap, 0, zn.end_pfn - zn.start_pfn)
      abs_pfn == zn.start_pfn + pfn
  IN  IF pfn < 0 THEN [st |-> st, ret |-> NULL]
      ELSE [st |->
              [zones |-> [st.zones EXCEPT
                            ![z].bitmap = bitmap_set(zn.bitmap, pfn),
                            ![z].free_pages = zn.free_pages - 1],
               page_array |-> [st.page_array EXCEPT
                                 ![abs_pfn] = [flags |-> {}, refcount |-> 1]],
               free_pages |-> st.free_pages - 1,
               mem |-> [st.mem EXCEPT ![abs_pfn] = ZeroPage]],
            ret |-> MEMORY_BASE + pfn_to_phys(abs_pfn)]

pmm_alloc_page(st) ==
  LET r == zone_alloc_page(st, ZONE_NORMAL)
  IN  IF r.ret = NULL THEN zone_alloc_page(st, ZONE_DMA) ELSE r

pmm_alloc_pages(st, count) ==
  IF count = 0 THEN [st |-> st, ret |-> NULL]
  ELSE IF count = 1 THEN pmm_alloc_page(st)
  ELSE
    LET zn == st.zones[ZONE_NORMAL]
        pfn == bitmap_find_contiguous(zn.bitmap, 0, zn.end_pfn - zn.start_pfn,
                                      count)
        abs_pfn == zn.start_pfn + pfn
        run == pfn .. (pfn + count - 1)
        absrun == abs_pfn .. (abs_pfn + count - 1)
    IN  IF pfn < 0 THEN [st |-> st, ret |-> NULL]
        ELSE [st |->
                [zones |-> [st.zones EXCEPT
                              ![ZONE_NORMAL].bitmap =
                                 [i \in DOMAIN zn.bitmap |->
                                    IF i \in run THEN 1 ELSE zn.bitmap[i]],
                              ![ZONE_NORMAL].free_pages = zn.free_pages - count],
                 page_array |-> [p \in DOMAIN st.page_array |->
                                   IF p \in absrun
                                   THEN [flags |-> {}, refcount |-> 1]
                                   ELSE st.page_array[p]],
                 free_pages |-> st.free_pages - count,
                 mem |-> [p \in DOMAIN st.mem |->
                            IF p \in absrun THEN ZeroPage ELSE st.mem[p]]],
              ret |-> MEMORY_BASE + pfn_to_phys(abs_pfn)]

\* faulty variant of the reserved test: no frame counts as reserved
page_reserved_never(pg) == FALSE
page_reserved(pg) == "PG_RESERVED" \in pg.flags

\* pmm_free_page; `total` is total_pages
pmm_free_page(st, total, page) ==
  IF page = NULL THEN st
  ELSE IF page < MEMORY_BASE THEN st
  ELSE
    LET pfn == phys_to_pfn(page - MEMORY_BASE) IN
    IF pfn >= total THEN st
    ELSE IF page_reserved(st.page_array[pfn]) THEN st
    ELSE
      LET rc == u32_dec(st.page_array[pfn].refcount)
          pa == [st.page_array EXCEPT ![pfn].refcount = rc]
          z == IF pfn < st.zones[ZONE_DMA].end_pfn THEN ZONE_DMA ELSE ZONE_NORMAL
          zone_pfn == IF z = ZONE_DMA THEN pfn
                      ELSE pfn - st.zones[ZONE_DMA].end_pfn
      IN  IF u32_gt0(rc) THEN [st EXCEPT !.page_array = pa]
          ELSE [st EXCEPT
                  !.page_array = pa,
                  !.zones[z].bitmap = bitmap_clear(st.zones[z].bitmap, zone_pfn),
                  !.zones[z].free_pages = st.zones[z].free_pages + 1,
                  !.free_pages = st.free_pages + 1]

RECURSIVE pmm_free_pages(_, _, _, _)
pmm_free_pages(st, total, page, count) ==
  IF count = 0 THEN st
  ELSE Bind(pmm_free_page(st, total, page), LAMBDA s1 :
         pmm_free_pages(s1, total, page + 1, count - 1))

\* size_t arithmetic of the rounding (x + PAGE_SIZE - 1) / PAGE_SIZE
size_to_pages(x) == ((x + PAGE_SIZE - 1) % SizeMod) \div PAGE_SIZE

\* pmm_alloc_aligned; size and align are in bytes, align a power of two (for
\* which (addr + align - 1) & ~(align - 1) rounds addr up to a multiple of
\* align).  `pages` is the number of frames the call keeps.
pmm_alloc_aligned(st, total, size, align) ==
  LET pages == size_to_pages(size)
      align_pages == size_to_pages(align)
      tot == pages + align_pages - 1
  IN  IF align_pages <= 1
        THEN Bind(pmm_alloc_pages(st, pages), LAMBDA r :
               [st |-> r.st, ret |-> r.ret, pages |-> pages])
        ELSE Bind(pmm_alloc_pages(st, tot), LAMBDA r :
               IF r.ret = NULL THEN [st |-> st, ret |-> NULL, pages |-> 0]
               ELSE
                 LET addr == r.ret * PAGE_SIZE
                     aligned == ((addr + align - 1) \div align) * align
                     skip == (aligned - addr) \div PAGE_SIZE
                     unused == tot - skip - pages
                     kept == aligned \div PAGE_SIZE
                 IN  Bind(IF skip > 0
                            THEN pmm_free_pages(r.st, total, r.ret, skip)
                            ELSE r.st, LAMBDA s1 :
                       [st |-> IF unused > 0
                                 THEN pmm_free_pages(s1, total, kept + pages,
                                                     unused)
                                 ELSE s1,
                        ret |-> kept, pages |-> pages]))

\* boot values of the page-table variables when the subsystem is not exercised
VmmOff ==
  /\ kernel_pgd = NULL
  /\ pgds = <<>>
  /\ vmm_last = [op |-> "none", pgd |-> NULL, va |-> <<>>]
  /\ vmm_loaded = <<>>
  /\ vmm_ops = 0

NoFrame == [owner |-> NULL, serial |-> 0, kind |-> "none"]

\* boot values of the scheduler variables
SchedOff ==
  /\ process_pool = <<>>
  /\ process_count = 0
  /\ current_pid = -1
  /\ current_process = NULL
  /\ context = <<>>
  /\ kstack = <<>>
  /\ running = NULL
  /\ in_irq = FALSE
  /\ irq_regs = NoFrame
  /\ ret_regs = NoFrame
  /\ pending = {}
  /\ jiffies = 0
  /\ restored = [by |-> "none", frame |-> NoFrame, latest |-> NoFrame]
  /\ picks = <<>>
  /\ entries = 0
  /\ sched_mode = "boot"
  /\ proc_state = <<>>
  /\ ttbr0 = NULL
  /\ esr_el1 = 0
  /\ svc = <<>>
  /\ pstate_i = TRUE
  /\ gic_log = <<>>

VqCtx == {"boot", "p1", "p2", "irq"}

\* boot values of the virtqueue variables
VqOff ==
  /\ vq_kind = "gpu"
  /\ vq_desc = <<>>
  /\ vq_avail_idx = 0
  /\ vq_used_idx = 0
  /\ vq_kick = FALSE
  /\ vq_dev_idx = 0
  /\ vq_pc = [c \in VqCtx |-> "idle"]
  /\ vq_pages = [c \in VqCtx |-> <<NULL, NULL>>]
  /\ vq_wait = [c \in VqCtx |-> 0]
  /\ vq_sends = [c \in VqCtx |-> 0]
  /\ vq_active = "boot"
  /\ vq_resume = "boot"
  /\ vq_started = 0
  /\ vq_sampled = [c \in VqCtx |-> FALSE]

\* width of the ring indices in bits (16, scaled down)
IdxBits == 3
IdxMod == 2 ^ IdxBits
\* width of the input queue's ring indices in bits (16, scaled down)
InIdxBits == 2
InIdxMod == 2 ^ InIdxBits
\* INPUT_QSIZE is 2 ^ InQBits (16, scaled down)
InQBits == 1
INPUT_QSIZE == 2 ^ InQBits
\* INPUT_BUFFER_SIZE and KB_BUFFER_SIZE (256, scaled down)
INPUT_BUFFER_SIZE == 3
KB_BUFFER_SIZE == 3

NoEvent == [type |-> "none", serial |-> 0]

\* the input queue after init_device, the rings empty
InOff ==
  /\ in_avail_ring = [i \in 0 .. (INPUT_QSIZE - 1) |-> i]
  /\ in_avail_idx = INPUT_QSIZE % InIdxMod
  /\ in_used_ring = [i \in 0 .. (INPUT_QSIZE - 1) |-> 0]
  /\ in_used_idx = 0
  /\ in_last_used_idx = 0
  /\ in_events = [i \in 0 .. (INPUT_QSIZE - 1) |-> NoEvent]
  /\ in_dev_idx = 0
  /\ in_isr = FALSE
  /\ in_handler = "idle"
  /\ input_buffer = [i \in 0 .. (INPUT_BUFFER_SIZE - 1) |-> NoEvent]
  /\ input_head = 0
  /\ input_tail = 0
  /\ kb_buffer = [i \in 0 .. (KB_BUFFER_SIZE - 1) |-> 0]
  /\ kb_head = 0
  /\ kb_tail = 0
  /\ rd_pc = "user"
  /\ rd_event = NoEvent
  /\ rd_tail = 0
  /\ in_gen = 0
  /\ in_kept = 0
  /\ in_polled = 0
  /\ in_last_polled = 0
  /\ kb_kept = 0
  /\ kb_popped = 0
  /\ kb_last_popped = 0

\* frames of the machine of the page-table and loader specifications
VmmNormalPages == 13
VmmFrames == 0 .. (DmaPages + VmmNormalPages - 1)

ZeroBytes == [i \in 0 .. (PAGE_SIZE - 1) |-> 0]

\* no program has been loaded
ElfOff ==
  /\ elf_last = [pgd |-> NULL, phdrs |-> <<>>, ret |-> -1, n |-> 0]
  /\ frame_bytes = [p \in VmmFrames |-> ZeroBytes]

\* the screen (ctx->width, ctx->height), scaled down
SCREEN_W == 4
SCREEN_H == 4
\* slots of the window table (MAX_WINDOWS, scaled down)
MAX_WINDOWS == 2
\* cells of the kernel heap (HEAP_SIZE, scaled down); a cell holds a pixel
HeapCells == 8
heap_base == 1
heap_end == heap_base + HeapCells
\* processes that call the compositor and read the keyboard
WmPids == 1 .. 3

\* a free slot of the window table: the struct after memset(.., 0, ..)
Window0 == [id |-> 0, x |-> 0, y |-> 0, width |-> 0, height |-> 0,
            z_order |-> 0, visible |-> 0, pid |-> 0, protected |-> 0,
            buffer |-> NULL]

\* record of a compositor call: the caller and the window id passed or
\* returned; of a button event: the state (0 release, 1 press) as id
WmCall(op, pid, id) == [op |-> op, pid |-> pid, id |-> id]

\* no delivery by sys_read
NoRead == [pid |-> 0, focus |-> 0, c |-> 0]

\* the compositor after compositor_init, the mouse in the middle of the
\* screen, and the heap before its first allocation
WmOff ==
  /\ windows = [i \in 0 .. (MAX_WINDOWS - 1) |-> Window0]
  /\ window_count = 0
  /\ next_window_id = 1
  /\ mouse_x = 2
  /\ mouse_y = 2
  /\ dragging_window_id = -1
  /\ drag_off_x = 0
  /\ drag_off_y = 0
  /\ heap = [a \in heap_base .. (heap_end - 1) |-> 0]
  /\ heap_ptr = heap_base
  /\ free_list = <<>>
  /\ wm_last = WmCall("none", 0, 0)
  /\ wm_ops = 0
  /\ wm_ids = {}
  /\ screen = [a \in 0 .. (SCREEN_W * SCREEN_H - 1) |-> 0]
  /\ screen_fresh = FALSE
  /\ sr_pc = [p \in WmPids |-> "user"]
  /\ sr_last = NoRead

\* escape_buf[32] of struct window
ESC_BUF_SIZE == 3
\* char_w and char_h of compositor_window_write (8 and 16 pixels), scaled down
CHAR_W == 2
CHAR_H == 2
\* 0xFF17171A, the background a new window is cleared to
BG_COLOR == 100
\* 0xFFFFFFFF; colours are written without their alpha byte, which is always FF
WHITE == 16777215

BlankCell == [ch |-> " ", color |-> BG_COLOR]

\* the terminal fields compositor_create_window sets, and the buffer filled
\* with the background colour; ev is the last thing the write loop did
FreshTerm(cols, rows) ==
  [cursor_x |-> 0, cursor_y |-> 0, fg_color |-> WHITE, escape_state |-> 0,
   escape_buf |-> [i \in 0 .. (ESC_BUF_SIZE - 1) |-> ""], escape_len |-> 0,
   cells |-> [x \in 0 .. (cols - 1) |-> [y \in 0 .. (rows - 1) |-> BlankCell]],
   ev |-> "none", scroll |-> FALSE]

\* cols and rows of compositor_window_write
TwCols == tw_size[1] \div CHAR_W
TwRows == tw_size[2] \div CHAR_H

TwOff ==
  /\ tw_size = <<6, 4>>
  /\ tw_term = FreshTerm(3, 2)
  /\ tw_last = ""
  /\ tw_n = 0
  /\ tw_ex = 0
  /\ tw_irq = FALSE

\* no call of the heap yet
KmOff ==
  /\ km_live = <<>>
  /\ km_last = [op |-> "none", ptr |-> 0, size |-> 0, ret |-> 0, n |-> 0]

\* contexts that call the allocator: a process inside a system call (IRQs
\* enabled) and the IRQ handler (IRQs masked by the exception entry)
PrCtx == {"svc", "irq"}
PrIrq == "irq"

\* no call of the allocator in progress
PrOff ==
  /\ pr_pc = [t \in PrCtx |-> "idle"]
  /\ pr_page = [t \in PrCtx |-> 0]
  /\ pr_rc = [t \in PrCtx |-> 0]
  /\ pr_z = [t \in PrCtx |-> 0]
  /\ pr_next = [t \in PrCtx |-> <<"idle", "idle">>]
  /\ pr_flags = [t \in PrCtx |-> FALSE]
  /\ pr_i = [t \in PrCtx |-> t = PrIrq]
  /\ pr_lock = [z \in {0, 1} |-> 0]
  /\ pr_n = 0

\* ids of the windows that exist
WinIds == {1}
\* character cells per row and rows of a window (width / 8, height / 16)
WinCols == 2
WinRows == 2

\* the pixel buffers g_ctx.buffer can point to
ScreenBuffer == [win |-> 0]
WinBuffer(id) == [win |-> id]

\* boot values of the terminal write path
CwOff ==
  /\ irq_masked = FALSE
  /\ ctx_buffer = ScreenBuffer
  /\ cw_pc = "user"
  /\ cw_win = 0
  /\ cw_chars = <<>>
  /\ cw_saved = ScreenBuffer
  /\ win_term = [w \in WinIds |->
                  [cursor_x |-> 0, cursor_y |-> 0, escape_state |-> 0]]
  /\ cw_seen = ScreenBuffer

\* record of an allocator call: the address freed or returned, the number of
\* frames, and the size and alignment in bytes of an aligned allocation
PmmCall(op, addr, count, size, align) ==
  [op |-> op, addr |-> addr, count |-> count, size |-> size, align |-> align]

\* frames (as addresses) of a run returned by an allocation
RunOf(ret, count) == IF ret = NULL THEN {} ELSE ret .. (ret + count - 1)

SetPmm(st) ==
  /\ zones' = st.zones
  /\ page_array' = st.page_array
  /\ free_pages' = st.free_pages
  /\ mem' = st.mem

PmmBoot(st, total, out) ==
  /\ zones = st.zones
  /\ page_array = st.page_array
  /\ free_pages = st.free_pages
  /\ mem = st.mem
  /\ total_pages = total
  /\ pmm_out = out
  /\ pmm_ret = {}
  /\ pmm_strays = 0
  /\ pmm_last = PmmCall("none", NULL, 0, 0, 0)

\* the allocator after pmm_init
PmmOff ==
  PmmBoot(pmm_init(DmaPages + NormalPages), DmaPages + NormalPages, {})

PmmAllocPage ==
  LET r == pmm_alloc_page(PmmState) IN
  /\ SetPmm(r.st)
  /\ pmm_ret' = RunOf(r.ret, 1)
  /\ pmm_out' = pmm_out \cup RunOf(r.ret, 1)
  /\ pmm_last' = PmmCall("alloc", r.ret, 1, 0, 0)
  /\ UNCHANGED <<total_pages, pmm_strays>>
  /\ UNCHANGED nonPmmVars

PmmAllocPages ==
  \E count \in 0 .. MaxCount :
    LET r == pmm_alloc_pages(PmmState, count) IN
    /\ SetPmm(r.st)
    /\ pmm_ret' = RunOf(r.ret, count)
    /\ pmm_out' = pmm_out \cup RunOf(r.ret, count)
    /\ pmm_last' = PmmCall("alloc", r.ret, count, 0, 0)
    /\ UNCHANGED <<total_pages, pmm_strays>>
    /\ UNCHANGED nonPmmVars

PmmFreePage ==
  \E page \in {NULL} \cup ((MEMORY_BASE - 1) .. (MEMORY_BASE + total_pages)) :
    /\ page \notin pmm_out => pmm_strays < MaxStray
    /\ SetPmm(pmm_free_page(PmmState, total_pages, page))
    /\ pmm_ret' = {}
    /\ pmm_out' = pmm_out \ {page}
    /\ pmm_strays' = IF page \in pmm_out THEN pmm_strays ELSE pmm_strays + 1
    /\ pmm_last' = PmmCall("free", page, 1, 0, 0)
    /\ UNCHANGED total_pages
    /\ UNCHANGED nonPmmVars

\* frames of the run page .. page + count - 1 that are not handed out
StrayFrames(page, count) == RunOf(page, count) \ pmm_out

PmmFreePages ==
  \E page \in {NULL} \cup ((MEMORY_BASE - 1) .. (MEMORY_BASE + total_pages)),
     count \in 0 .. MaxCount :
    /\ pmm_strays + Cardinality(StrayFrames(page, count)) <= MaxStray
    /\ \E s1 \in {pmm_free_pages(PmmState, total_pages, page, count)} :
         SetPmm(s1)
    /\ pmm_ret' = {}
    /\ pmm_out' = pmm_out \ RunOf(page, count)
    /\ pmm_strays' = pmm_strays + Cardinality(StrayFrames(page, count))
    /\ pmm_last' = PmmCall("free", page, count, 0, 0)
    /\ UNCHANGED total_pages
    /\ UNCHANGED nonPmmVars

\* sizes and alignments, in bytes, passed to pmm_alloc_aligned
AlignedSizes ==
  {0, 1, PAGE_SIZE, PAGE_SIZE + 1, 2 * PAGE_SIZE, SizeMod - 1}
AlignedAligns == {1} \cup {PAGE_SIZE * (2 ^ k) : k \in 0 .. MaxAlignLog}

PmmAllocAligned ==
  \E size \in AlignedSizes, align \in AlignedAligns :
    \E r \in {pmm_alloc_aligned(PmmState, total_pages, size, align)} :
      /\ SetPmm(r.st)
      /\ pmm_ret' = RunOf(r.ret, r.pages)
      /\ pmm_out' = pmm_out \cup RunOf(r.ret, r.pages)
      /\ pmm_last' = PmmCall("aligned", r.ret, r.pages, size, align)
      /\ UNCHANGED <<total_pages, pmm_strays>>
      /\ UNCHANGED nonPmmVars

InitPmm ==
  /\ PmmOff
  /\ VmmOff
  /\ SchedOff
  /\ VqOff
  /\ CwOff
  /\ InOff
  /\ ElfOff
  /\ WmOff
  /\ TwOff
  /\ KmOff
  /\ PrOff

NextPmm ==
  \/ PmmAllocPage
  \/ PmmAllocPages
  \/ PmmFreePage
  \/ PmmFreePages
  \/ PmmAllocAligned

vars == <<pmmVars, vmmVars, schedVars, vqVars, cwVars, inVars, elfVars, wmVars, twVars, kmVars, prVars>>

SpecPmm == InitPmm /\ [][NextPmm]_vars

----------------------------------------------------------------------------
\* frames whose bitmap bit is set, as addresses
BitmapUsed ==
  {MEMORY_BASE + zones[z].start_pfn + i :
     z \in {ZONE_DMA}, i \in {j \in DOMAIN zones[ZONE_DMA].bitmap :
                                 zones[ZONE_DMA].bitmap[j] = 1}}
  \cup
  {MEMORY_BASE + zones[ZONE_NORMAL].start_pfn + i :
     i \in {j \in DOMAIN zones[ZONE_NORMAL].bitmap :
              zones[ZONE_NORMAL].bitmap[j] = 1}}

ReservedAddrs == {MEMORY_BASE + p : p \in KernelFrames}

\* C3: the frames marked used in the bitmaps are exactly the frames handed out
\* and not yet freed together with the frames reserved at init, and no
\* allocation returns a frame that is still handed out.
C3_BitmapIsOutstanding ==
  /\ [](BitmapUsed = pmm_out \cup ReservedAddrs)
  /\ [][pmm_ret' \cap pmm_out = {}]_vars

\* an allocation has just returned while other frames are handed out, after a
\* free of a frame that was not handed out
C3_Witness ==
  /\ pmm_ret # {}
  /\ Cardinality(pmm_out) >= 3
  /\ pmm_strays > 0

\* C18: the frames reserved at init stay marked used with their reserved
\* descriptor, no allocation returns one of them, and a free applied to
\* reserved frames only leaves the bitmaps, the reference counts and the
\* free-frame counters as they were.
C18_ReservedStayReserved ==
  /\ [](\A p \in KernelFrames :
          /\ page_array[p] =
               [flags |-> {"PG_RESERVED", "PG_KERNEL"}, refcount |-> 1]
          /\ MEMORY_BASE + p \in BitmapUsed)
  /\ [][pmm_ret' \cap ReservedAddrs = {}]_vars
  /\ [][(/\ pmm_last'.op = "free"
          /\ pmm_last'.count > 0
          /\ RunOf(pmm_last'.addr, pmm_last'.count) \subseteq ReservedAddrs)
        => UNCHANGED <<zones, page_array, free_pages>>]_vars

\* a reserved frame has just been freed while other frames are handed out
\* and the normal zone is exhausted
C18_Witness ==
  /\ pmm_last.op = "free"
  /\ pmm_last.addr \in ReservedAddrs
  /\ pmm_out # {}
  /\ zones[ZONE_NORMAL].free_pages = 0

\* ceil(size / PAGE_SIZE), without the width of size_t
CeilPages(size) == (size + PAGE_SIZE - 1) \div PAGE_SIZE

ZoneAddrs(z) ==
  {MEMORY_BASE + p : p \in zones[z].start_pfn .. (zones[z].end_pfn - 1)}

\* the last call was a successful pmm_alloc_aligned with a valid alignment
AlignedSucceeded(call) ==
  /\ call.op = "aligned"
  /\ call.addr # NULL
  /\ call.align >= PAGE_SIZE

\* C19: a successful pmm_alloc_aligned(size, align), align a power of two not
\* smaller than the page size, returns a multiple of align, and the
\* ceil(size / PAGE_SIZE) frames from the returned address lie in one zone.
C19_AlignedInOneZone ==
  AlignedSucceeded(pmm_last) =>
    /\ (pmm_last.addr * PAGE_SIZE) % pmm_last.align = 0
    /\ \E z \in {ZONE_DMA, ZONE_NORMAL} :
         RunOf(pmm_last.addr, CeilPages(pmm_last.size)) \subseteq ZoneAddrs(z)

\* C20: a successful pmm_alloc_aligned(size, align) leaves allocated exactly
\* the ceil(size / PAGE_SIZE) frames from the returned address in addition to
\* the frames allocated before the call: the head and the tail of the
\* over-allocated run are free again and no other frame has been freed.
C20_AlignedKeepsExactRun ==
  [][AlignedSucceeded(pmm_last') =>
       /\ BitmapUsed' =
            BitmapUsed \cup RunOf(pmm_last'.addr, CeilPages(pmm_last'.size))
       /\ free_pages' = free_pages - CeilPages(pmm_last'.size)]_vars

----------------------------------------------------------------------------
(* Virtual memory manager: 4-level tables held in frames of mem.  A virtual *)
(* address is the tuple of its four table indices <<pgd, pud, pmd, pt>>.    *)

\* page-table operations per behaviour
MaxVmmOps == 2
\* address spaces created by vmm_create_pgd
MaxPgds == 2

PGD_INDEX(x) == x[1]
PUD_INDEX(x) == x[2]
PMD_INDEX(x) == x[3]
\* faulty variant of PT_INDEX: every page uses entry 0 of its table
PT_INDEX_zero(x) == 0
PT_INDEX(x) == x[4]

AllVAs == Idx \X Idx \X Idx \X Idx

PTE_TABLE_FLAGS == {"PTE_TABLE", "PTE_VALID", "PTE_AF", "PTE_INNER_SHARE",
                    "PTE_UXN", "PTE_PXN"}
PAGE_KERNEL == {"PTE_VALID", "PTE_PAGE", "PTE_INNER_SHARE", "PTE_AF", "PTE_UXN"}
PAGE_DEVICE == {"PTE_VALID", "PTE_PAGE", "PTE_ATTR_DEVICE", "PTE_INNER_SHARE",
                "PTE_AF", "PTE_UXN", "PTE_PXN"}
\* PTE_AP_EL0_RW is bit 6 of the entry (AP[1]); PTE_RO is bit 7 (AP[2])
PAGE_USER == {"PTE_VALID", "PTE_PAGE", "PTE_INNER_SHARE", "PTE_AF", "PTE_AP1",
              "PTE_PXN"}

TableOf(m, addr) == m[addr - MEMORY_BASE]

\* get_next_table: the table entry `index` of `table` points to, made on demand
get_next_table(st, table, index, alloc) ==
  Bind(TableOf(st.mem, table)[index], LAMBDA e :
    IF e.valid THEN [st |-> st, ret |-> e.addr]
    ELSE IF ~alloc THEN [st |-> st, ret |-> NULL]
    ELSE Bind(pmm_alloc_page(st), LAMBDA r :
           IF r.ret = NULL THEN [st |-> st, ret |-> NULL]
           ELSE [st |-> [r.st EXCEPT
                           !.mem[table - MEMORY_BASE][index] =
                              [valid |-> TRUE, addr |-> r.ret,
                               flags |-> PTE_TABLE_FLAGS]],
                 ret |-> r.ret]))

\* vmm_map_page: ret is 0 or -1
vmm_map_page(st, pgd, virt, phys, flags) ==
  Bind(get_next_table(st, pgd, PGD_INDEX(virt), TRUE), LAMBDA r0 :
    IF r0.ret = NULL THEN [st |-> r0.st, ret |-> -1]
    ELSE Bind(get_next_table(r0.st, r0.ret, PUD_INDEX(virt), TRUE), LAMBDA r1 :
      IF r1.ret = NULL THEN [st |-> r1.st, ret |-> -1]
      ELSE Bind(get_next_table(r1.st, r1.ret, PMD_INDEX(virt), TRUE), LAMBDA r2 :
        IF r2.ret = NULL THEN [st |-> r2.st, ret |-> -1]
        ELSE [st |-> [r2.st EXCEPT
                        !.mem[r2.ret - MEMORY_BASE][PT_INDEX(virt)] =
                           [valid |-> "PTE_VALID" \in flags, addr |-> phys,
                            flags |-> flags]],
              ret |-> 0])))

vmm_unmap_page(st, pgd, virt) ==
  Bind(get_next_table(st, pgd, PGD_INDEX(virt), FALSE), LAMBDA r0 :
    IF r0.ret = NULL THEN st
    ELSE Bind(get_next_table(st, r0.ret, PUD_INDEX(virt), FALSE), LAMBDA r1 :
      IF r1.ret = NULL THEN st
      ELSE Bind(get_next_table(st, r1.ret, PMD_INDEX(virt), FALSE), LAMBDA r2 :
        IF r2.ret = NULL THEN st
        ELSE [st EXCEPT !.mem[r2.ret - MEMORY_BASE][PT_INDEX(virt)] = PTE0])))

\* vmm_create_pgd: a fresh frame holding a copy of the table TTBR0 points to
vmm_create_pgd(st, current_ttbr0) ==
  Bind(pmm_alloc_page(st), LAMBDA r :
    IF r.ret = NULL THEN r
    ELSE [st |-> [r.st EXCEPT !.mem[r.ret - MEMORY_BASE] =
                                 TableOf(r.st.mem, current_ttbr0)],
          ret |-> r.ret])

\* the kernel's own mappings: RAM at 0x40000000 (PUD index 1) and the device
\* registers at 0x08000000 (PUD index 0)
KernelRamVA == <<0, 1, 0, 0>>
KernelMmioVA == <<0, 0, 1, 0>>
KernelImageAddr == MEMORY_BASE + 1
MmioAddr == 1

\* vmm_init: allocate kernel_pgd and map RAM and the MMIO aperture
vmm_init(st) ==
  Bind(pmm_alloc_page(st), LAMBDA r :
    Bind(vmm_map_page(r.st, r.ret, KernelRamVA, KernelImageAddr, PAGE_KERNEL),
         LAMBDA a :
      Bind(vmm_map_page(a.st, r.ret, KernelMmioVA, MmioAddr, PAGE_DEVICE),
           LAMBDA b : [st |-> b.st, ret |-> r.ret])))

\* translation by software: the leaf entry of va under pgd, or PTE0
RECURSIVE WalkFrom(_, _, _, _)
WalkFrom(m, table, va, level) ==
  LET e == TableOf(m, table)[va[level]] IN
  IF ~e.valid THEN PTE0
  ELSE IF level = 4 THEN e
  ELSE WalkFrom(m, e.addr, va, level + 1)

Walk(m, pgd, va) == WalkFrom(m, pgd, va, 1)

\* pages of the program segments: the user programs are linked at 0x80000000
\* (PUD index 2); p_vaddr of another image may lie under another PGD entry
SegmentVAs == {<<0, 2, 0, 0>>, <<0, 2, 0, 1>>, <<1, 0, 0, 0>>}
\* a page of the user stack at 0xC0000000 (PUD index 3)
StackVAs == {<<0, 3, 0, 0>>}
UserVAs == SegmentVAs \cup StackVAs

\* page flags process_load_elf derives from a segment's p_flags
\* (PTE_RW sets no bit; PTE_RO sets bit 7, AP[2])
elf_segment_flags(p_flags) ==
  {"PTE_VALID", "PTE_AF", "PTE_INNER_SHARE"} \cup PAGE_USER
  \cup (IF "PF_W" \in p_flags THEN {} ELSE {"PTE_AP2"})
  \cup (IF "PF_X" \in p_flags THEN {} ELSE {"PTE_UXN"})

AddressSpaces == {kernel_pgd} \cup {pgds[i] : i \in DOMAIN pgds}

InitVmm ==
  \E total \in {DmaPages + VmmNormalPages} :
  \E st0 \in {pmm_init(total)} :
  \E k \in {vmm_init(st0)} :
      /\ PmmBoot(k.st, total, {})
      /\ kernel_pgd = k.ret
      /\ pgds = <<>>
      /\ vmm_last = [op |-> "none", pgd |-> NULL, va |-> <<>>]
      /\ vmm_loaded = <<>>
      /\ vmm_ops = 0
      /\ SchedOff
      /\ VqOff
      /\ CwOff
      /\ InOff
      /\ ElfOff
      /\ WmOff
      /\ TwOff
      /\ KmOff
      /\ PrOff

\* process_create's vmm_create_pgd(); TTBR0 holds kernel_pgd during boot
VmmCreatePgd ==
  /\ Len(pgds) < MaxPgds
  /\ \E st0 \in {PmmState} : \E r \in {vmm_create_pgd(st0, kernel_pgd)} :
     /\ r.ret # NULL
     /\ SetPmm(r.st)
     /\ pgds' = Append(pgds, r.ret)
     /\ vmm_loaded' = Append(vmm_loaded, [va \in UserVAs |-> NULL])
     /\ vmm_last' = [op |-> "create", pgd |-> r.ret, va |-> <<>>]
  /\ UNCHANGED <<kernel_pgd, vmm_ops, total_pages, pmm_out, pmm_ret, pmm_strays,
                 pmm_last>>
  /\ UNCHANGED nonVmmVars

\* one page of a PT_LOAD segment (elf.c 66-81): allocate a frame and map it
ElfMapSegmentPage ==
  \E i \in DOMAIN pgds, va \in SegmentVAs, p_flags \in SUBSET {"PF_W", "PF_X"} :
    /\ vmm_ops < MaxVmmOps
    /\ \E a \in {pmm_alloc_page(PmmState)} :
       \E r \in {IF a.ret = NULL THEN a
                 ELSE vmm_map_page(a.st, pgds[i], va, a.ret,
                                   elf_segment_flags(p_flags))} :
           /\ a.ret # NULL
           /\ IF r.ret = 0
              THEN /\ SetPmm(r.st)
                   /\ vmm_loaded' = [vmm_loaded EXCEPT ![i][va] = a.ret]
              ELSE /\ SetPmm(pmm_free_page(r.st, total_pages, a.ret))
                   /\ UNCHANGED vmm_loaded
           /\ vmm_last' = [op |-> "map", pgd |-> pgds[i], va |-> va]
    /\ vmm_ops' = vmm_ops + 1
    /\ UNCHANGED <<kernel_pgd, pgds, total_pages, pmm_out, pmm_ret, pmm_strays,
                   pmm_last>>
    /\ UNCHANGED nonVmmVars

\* one page of the user stack (elf.c 121-134), mapped PAGE_USER
ElfMapStackPage ==
  \E i \in DOMAIN pgds, va \in StackVAs :
    /\ vmm_ops < MaxVmmOps
    /\ \E a \in {pmm_alloc_page(PmmState)} :
       \E r \in {IF a.ret = NULL THEN a
                 ELSE vmm_map_page(a.st, pgds[i], va, a.ret, PAGE_USER)} :
           /\ a.ret # NULL
           /\ IF r.ret = 0
              THEN /\ SetPmm(r.st)
                   /\ vmm_loaded' = [vmm_loaded EXCEPT ![i][va] = a.ret]
              ELSE /\ SetPmm(pmm_free_page(r.st, total_pages, a.ret))
                   /\ UNCHANGED vmm_loaded
           /\ vmm_last' = [op |-> "map", pgd |-> pgds[i], va |-> va]
    /\ vmm_ops' = vmm_ops + 1
    /\ UNCHANGED <<kernel_pgd, pgds, total_pages, pmm_out, pmm_ret, pmm_strays,
                   pmm_last>>
    /\ UNCHANGED nonVmmVars

VmmUnmapPage ==
  \E i \in DOMAIN pgds, va \in UserVAs :
    /\ vmm_ops < MaxVmmOps
    /\ \E st0 \in {PmmState} : SetPmm(vmm_unmap_page(st0, pgds[i], va))
    /\ vmm_last' = [op |-> "unmap", pgd |-> pgds[i], va |-> va]
    /\ vmm_ops' = vmm_ops + 1
    /\ UNCHANGED <<kernel_pgd, pgds, vmm_loaded, total_pages, pmm_out, pmm_ret,
                   pmm_strays, pmm_last>>
    /\ UNCHANGED nonVmmVars

NextVmm ==
  \/ VmmCreatePgd
  \/ ElfMapSegmentPage
  \/ ElfMapStackPage
  \/ VmmUnmapPage

SpecVmm == InitVmm /\ [][NextVmm]_vars

\* AP[1] set lets EL0 access the page, a clear UXN lets EL0 execute it; a
\* clear AP[2] lets EL1 write it
El0Executable(e) == e.valid /\ "PTE_AP1" \in e.flags /\ "PTE_UXN" \notin e.flags
El1Writable(e) == e.valid /\ "PTE_AP2" \notin e.flags

\* frames reachable through a leaf entry of some table that satisfies P
FramesWhere(P(_)) ==
  {e.addr : e \in {x \in {Walk(mem, a, va) : a \in AddressSpaces,
                                              va \in AllVAs} : P(x)}}

\* C17: no frame is reachable through a leaf entry that lets EL0 execute it
\* while a leaf entry (the same or another, in any table) lets EL1 write it.
C17_NoUserExecKernelWrite ==
  FramesWhere(El0Executable) \cap FramesWhere(El1Writable) = {}

\* ---- vmm_map_page and vmm_unmap_page on one table, the kernel's, as during
\* boot before any address space is derived from it

\* map and unmap calls per behaviour
MaxMapOps == 2

\* the mapped kernel page, its neighbour in the same table, a page under
\* another PMD entry and one under another PGD entry
MapVAs == {KernelRamVA, <<0, 1, 0, 1>>, <<0, 1, 1, 0>>, <<1, 0, 0, 0>>}
\* the frame and flags of a map call
MapTargets == {[addr |-> MEMORY_BASE, flags |-> PAGE_KERNEL],
               [addr |-> MEMORY_BASE + 1, flags |-> PAGE_USER]}

KernelMapPage ==
  \E va \in MapVAs, t \in MapTargets :
    /\ vmm_ops < MaxMapOps
    /\ \E st0 \in {PmmState} :
       \E r \in {vmm_map_page(st0, kernel_pgd, va, t.addr, t.flags)} :
         /\ SetPmm(r.st)
         /\ vmm_last' = [op |-> "map_page", pgd |-> kernel_pgd, va |-> va,
                         addr |-> t.addr, flags |-> t.flags, ret |-> r.ret]
    /\ vmm_ops' = vmm_ops + 1
    /\ UNCHANGED <<kernel_pgd, pgds, vmm_loaded, total_pages, pmm_out, pmm_ret,
                   pmm_strays, pmm_last>>
    /\ UNCHANGED nonVmmVars

KernelUnmapPage ==
  \E va \in MapVAs :
    /\ vmm_ops < MaxMapOps
    /\ \E st0 \in {PmmState} : SetPmm(vmm_unmap_page(st0, kernel_pgd, va))
    /\ vmm_last' = [op |-> "unmap_page", pgd |-> kernel_pgd, va |-> va]
    /\ vmm_ops' = vmm_ops + 1
    /\ UNCHANGED <<kernel_pgd, pgds, vmm_loaded, total_pages, pmm_out, pmm_ret,
                   pmm_strays, pmm_last>>
    /\ UNCHANGED nonVmmVars

\* other kernel code takes frames with pmm_alloc_page in between
NextMap ==
  \/ KernelMapPage
  \/ KernelUnmapPage
  \/ PmmAllocPage

SpecMap == InitVmm /\ [][NextMap]_vars

C2_AddressSpacesIsolated ==
  /\ [][vmm_last'.op = "map" =>
          \A b \in AddressSpaces \ {vmm_last'.pgd} : \A va \in AllVAs :
             Walk(mem', b, va) = Walk(mem, b, va)]_vars
  /\ [](\A i \in DOMAIN pgds : \A va \in UserVAs :
          vmm_loaded[i][va] # NULL =>
             Walk(mem, pgds[i], va).addr = vmm_loaded[i][va])

----------------------------------------------------------------------------
(* The program loader.  A program header is the record [p_type, p_vaddr,   *)
(* p_offset, p_filesz, p_memsz, p_flags]; virtual addresses of an image    *)
(* are byte offsets from the link base 0x80000000, and byte o of the file  *)
(* has the value FileByte(o).                                              *)

\* programs loaded per behaviour
MaxLoads == 1
\* pages the link addresses of an image span
ElfSpanPages == 2

\* content of the file: no byte is zero and neighbouring bytes differ
FileByte(o) == o + 1

\* the page with index k above the link base (PUD index 2)
ElfVA(k) == <<0, 2, 0, k>>

\* one round of the page loop (elf.c 66-113): a fresh frame is mapped at the
\* page, zeroed, and the part of the file that lies in the page copied in
elf_load_page(es, total, pgd, phdr, vpage) ==
  Bind(pmm_alloc_page(es.st), LAMBDA a :
    IF a.ret = NULL THEN [es EXCEPT !.ret = -1]
    ELSE Bind(vmm_map_page(a.st, pgd, ElfVA(vpage), a.ret,
                           elf_segment_flags(phdr.p_flags)), LAMBDA m :
      IF m.ret # 0
      THEN [es EXCEPT !.st = pmm_free_page(m.st, total, a.ret), !.ret = -1]
      ELSE LET seg_vstart == phdr.p_vaddr
               seg_vend_file == seg_vstart + phdr.p_filesz
               page_start == vpage * PAGE_SIZE
               page_end == page_start + PAGE_SIZE
               copy_start == Max(page_start, seg_vstart)
               copy_end == Min(page_end, seg_vend_file)
               copy_len == copy_end - copy_start
               offset_in_page == copy_start - page_start
               offset_in_file == phdr.p_offset + (copy_start - seg_vstart)
           IN [es EXCEPT
                 !.st = m.st,
                 !.bytes[a.ret - MEMORY_BASE] =
                    [i \in 0 .. (PAGE_SIZE - 1) |->
                       IF /\ copy_start < copy_end
                          /\ i >= offset_in_page
                          /\ i < offset_in_page + copy_len
                       THEN FileByte(offset_in_file + (i - offset_in_page))
                       ELSE 0]]))

\* the page loop of one PT_LOAD segment, from page vpage up to end_vpage
RECURSIVE elf_load_segment(_, _, _, _, _, _)
elf_load_segment(es, total, pgd, phdr, vpage, end_vpage) ==
  IF vpage >= end_vpage THEN es
  ELSE Bind(elf_load_page(es, total, pgd, phdr, vpage), LAMBDA e1 :
         IF e1.ret # 0 THEN e1
         ELSE elf_load_segment(e1, total, pgd, phdr, vpage + 1, end_vpage))

\* the stack loop (elf.c 121-134), one page long
elf_load_stack(es, total, pgd) ==
  Bind(pmm_alloc_page(es.st), LAMBDA a :
    IF a.ret = NULL THEN [es EXCEPT !.ret = -1]
    ELSE Bind(vmm_map_page(a.st, pgd, CHOOSE va \in StackVAs : TRUE, a.ret,
                           PAGE_USER), LAMBDA m :
      IF m.ret # 0
      THEN [es EXCEPT !.st = pmm_free_page(m.st, total, a.ret), !.ret = -1]
      ELSE [es EXCEPT !.st = m.st]))

\* process_load_elf from program header i on; es.ret is 0 until a step fails
RECURSIVE process_load_elf(_, _, _, _, _)
process_load_elf(es, total, pgd, phdrs, i) ==
  IF i > Len(phdrs) THEN elf_load_stack(es, total, pgd)
  ELSE IF phdrs[i].p_type # "PT_LOAD"
  THEN process_load_elf(es, total, pgd, phdrs, i + 1)
  ELSE Bind(elf_load_segment(es, total, pgd, phdrs[i],
                             phdrs[i].p_vaddr \div PAGE_SIZE,
                             (phdrs[i].p_vaddr + phdrs[i].p_memsz
                                + PAGE_SIZE - 1) \div PAGE_SIZE),
            LAMBDA e1 :
         IF e1.ret # 0 THEN e1
         ELSE process_load_elf(e1, total, pgd, phdrs, i + 1))

\* program headers of the images: up to two headers, the loadable ones in
\* ascending address order and sharing no byte
ElfPhdrs ==
  [p_type : {"PT_LOAD", "PT_NOTE"},
   p_vaddr : 0 .. (ElfSpanPages * PAGE_SIZE - 1),
   p_offset : {0, PAGE_SIZE},
   p_filesz : 0 .. PAGE_SIZE,
   p_memsz : 1 .. PAGE_SIZE,
   p_flags : {{"PF_R", "PF_X"}, {"PF_R", "PF_W"}}]

ElfImages ==
  {phdrs \in UNION {[1 .. n -> ElfPhdrs] : n \in 1 .. 2} :
     /\ \A i \in DOMAIN phdrs : phdrs[i].p_filesz <= phdrs[i].p_memsz
     /\ \A i \in DOMAIN phdrs :
           phdrs[i].p_type = "PT_NOTE" =>
              phdrs[i].p_vaddr = 0 /\ phdrs[i].p_memsz = 1
                 /\ phdrs[i].p_filesz = 1 /\ phdrs[i].p_flags = {"PF_R", "PF_W"}
     /\ \A i, j \in DOMAIN phdrs :
           (i < j /\ phdrs[i].p_type = "PT_LOAD" /\ phdrs[j].p_type = "PT_LOAD")
              => phdrs[i].p_vaddr + phdrs[i].p_memsz <= phdrs[j].p_vaddr}

\* process_load_elf(proc, path) for the process created last
ElfLoad ==
  /\ pgds # <<>>
  /\ elf_last.n < MaxLoads
  /\ \E phdrs \in ElfImages :
     \E r \in {process_load_elf([st |-> PmmState, bytes |-> frame_bytes,
                                 ret |-> 0],
                                total_pages, pgds[Len(pgds)], phdrs, 1)} :
        /\ SetPmm(r.st)
        /\ frame_bytes' = r.bytes
        /\ elf_last' = [pgd |-> pgds[Len(pgds)], phdrs |-> phdrs,
                        ret |-> r.ret, n |-> elf_last.n + 1]
  /\ UNCHANGED <<total_pages, pmm_out, pmm_ret, pmm_strays, pmm_last>>
  /\ UNCHANGED <<vmmVars, schedVars, vqVars, cwVars, inVars, wmVars, twVars,
               kmVars, prVars>>

NextElf ==
  \/ VmmCreatePgd
  \/ ElfLoad

SpecElf == InitVmm /\ [][NextElf]_vars

\* byte j of the segment phdr as the address space pgd shows it, -1 when the
\* page is not mapped with the permissions of the segment
SegmentByte(pgd, phdr, j) ==
  LET v == phdr.p_vaddr + j
      e == Walk(mem, pgd, ElfVA(v \div PAGE_SIZE))
  IN IF e.valid /\ e.flags = elf_segment_flags(phdr.p_flags)
     THEN frame_bytes[e.addr - MEMORY_BASE][v % PAGE_SIZE]
     ELSE -1

\* C15: after process_load_elf returned 0, every byte of every PT_LOAD
\* segment lies in a page mapped with the segment's permissions; the first
\* p_filesz bytes equal the file from p_offset on and the rest, up to
\* p_memsz, are zero.
C15_SegmentsLoaded ==
  elf_last.ret = 0 =>
    \A i \in DOMAIN elf_last.phdrs :
      elf_last.phdrs[i].p_type = "PT_LOAD" =>
        \A j \in 0 .. (elf_last.phdrs[i].p_memsz - 1) :
          SegmentByte(elf_last.pgd, elf_last.phdrs[i], j)
            = IF j < elf_last.phdrs[i].p_filesz
              THEN FileByte(elf_last.phdrs[i].p_offset + j)
              ELSE 0

----------------------------------------------------------------------------
(* Scheduler, IRQ dispatch and exception entry/exit.  A saved register     *)
(* frame is the record [owner, serial, kind]: the process on whose kernel  *)
(* stack it was saved, a serial number, and the kind of exception.         *)

\* processes created at boot (MAX_PROCESSES, scaled down)
MaxProc == 3
\* exception entries per behaviour
MaxEntries == 4
\* timer ticks per behaviour
MaxTicks == 6

IRQ_TIMER_VIRT == 27
\* the line of the first VirtIO input slot
IRQ_INPUT == 48
\* a line enabled at the GIC for which no handler is registered (any of them)
IRQ_NO_HANDLER == 33
IrqLines == {IRQ_TIMER_VIRT, IRQ_INPUT}

\* the interrupt id read when nothing is pending
GIC_SPURIOUS_IRQ == 1023
\* lines with a handler in irq_handlers[]: the VirtIO input device
Registered == {IRQ_INPUT}
\* passes of the irq_handler loop kept in gic_log
MaxLog == 2

PROC_CREATED == 1
PROC_RUNNING == 2

\* exception classes of ESR_EL1 bits 31:26
EC_SVC == 21
EC_DABT_LOW == 36
\* the class has not been read yet
EC_UNREAD == -1

\* the numbers syscall_handler has a case for
KnownSyscalls == {63, 64, 93, 169, 172, 200, 201, 210, 211, 212}
\* numbers user code puts in x8: getpid, and one without a case
SvcNrs == {172, 7}
SYS_EXIT == 93

NoSvc == [by |-> "none", ec |-> EC_UNREAD,
          regs |-> [x0 |-> 0, x2 |-> 0, x8 |-> 0],
          entry |-> [x0 |-> 0, x2 |-> 0, x8 |-> 0]]

\* proc->page_table: one translation table per process
page_table(pid) == [pgd_of |-> pid]

\* msr daifset, #2 and msr daifclr, #2: the new value of the mask
local_irq_disable(masked) == TRUE
local_irq_enable(masked) == FALSE
\* PSTATE.I after spin_lock_irqsave ... spin_unlock_irqrestore
spin_irqsave_restore(i) ==
  LET flags == i
      locked == TRUE
  IN  flags
\* faulty variant: the handler ends as the drawing syscalls do
virtio_input_handler_unmasks(i, closes) == local_irq_enable(i)
\* PSTATE.I after virtio_input_handler: compositor_update_mouse,
\* compositor_handle_click and compositor_render leave it alone, and closing a
\* window frees its buffer under the allocator's lock
virtio_input_handler_daif(i, closes) ==
  IF closes THEN spin_irqsave_restore(i) ELSE i

Top(stk) == IF stk = <<>> THEN NoFrame ELSE stk[Len(stk)]

\* faulty variant of next_slot: the slot never advances
next_slot_stuck(cur, count) == IF cur < 0 THEN 0 ELSE cur
\* the round-robin step of schedule()
next_slot(cur, count) == (cur + 1) % count

\* schedule(regs): the new scheduler fields and the frame to return to
schedule(regs) ==
  IF process_count = 0
  THEN [context |-> context, current_pid |-> current_pid,
        current_process |-> current_process, ret |-> regs,
        proc_state |-> proc_state, ttbr0 |-> ttbr0]
  ELSE
    LET saved == IF current_process # NULL
                 THEN [context EXCEPT ![current_process] = regs]
                 ELSE context
        marked == IF current_process # NULL
                  THEN [proc_state EXCEPT ![current_process] = PROC_RUNNING]
                  ELSE proc_state
        slot == next_slot(current_pid, process_count)
        next == process_pool[slot + 1]
    IN  [context |-> saved, current_pid |-> slot, current_process |-> next,
         ret |-> saved[next], proc_state |-> marked,
         ttbr0 |-> page_table(next)]

\* process_create: take the next slot; the initial frame is at the top of the
\* new kernel stack
ProcessCreate ==
  /\ sched_mode = "boot"
  /\ process_count < MaxProc
  /\ LET pid == process_count + 1
         f == [owner |-> pid, serial |-> 0, kind |-> "init"]
     IN  /\ process_pool' = Append(process_pool, pid)
         /\ process_count' = process_count + 1
         /\ context' = Append(context, f)
         /\ kstack' = Append(kstack, <<f>>)
         /\ proc_state' = Append(proc_state, PROC_CREATED)
         /\ svc' = Append(svc, NoSvc)
  /\ UNCHANGED <<current_pid, current_process, running, in_irq, irq_regs,
                 ret_regs, pending, jiffies, restored, picks, entries,
                 sched_mode, ttbr0, esr_el1, pstate_i, gic_log>>
  /\ UNCHANGED nonSchedVars

\* start_user_process(init): init is the first process created
StartUserProcess ==
  /\ sched_mode = "boot"
  /\ process_count >= 1
  /\ current_process' = process_pool[1]
  /\ current_pid' = 0
  /\ running' = process_pool[1]
  /\ kstack' = [kstack EXCEPT ![process_pool[1]] = <<>>]
  /\ ttbr0' = page_table(process_pool[1])
  /\ proc_state' = [proc_state EXCEPT ![process_pool[1]] = PROC_RUNNING]
  /\ pstate_i' = FALSE
  /\ sched_mode' = "run"
  /\ UNCHANGED <<process_pool, process_count, context, in_irq, irq_regs,
                 ret_regs, pending, jiffies, restored, picks, entries,
                 esr_el1, svc, gic_log>>
  /\ UNCHANGED nonSchedVars

\* a device or the timer asserts its line
RaiseLine(Lines) ==
  \E line \in Lines :
    /\ sched_mode = "run"
    /\ line \notin pending
    /\ line = IRQ_TIMER_VIRT => jiffies < MaxTicks
    /\ pending' = pending \cup {line}
    /\ UNCHANGED <<process_pool, process_count, current_pid, current_process,
                   context, kstack, running, in_irq, irq_regs, ret_regs,
                   jiffies, restored, picks, entries, sched_mode, proc_state,
                   ttbr0, esr_el1, svc, pstate_i, gic_log>>
    /\ UNCHANGED nonSchedVars

\* the timer or the input device interrupts
RaiseIrq == RaiseLine(IrqLines)

\* the timer, the input device or the line without handler interrupts
RaiseAnyIrq == RaiseLine(IrqLines \cup {IRQ_NO_HANDLER})

\* exception entry: a frame is stacked on the kernel stack in use
PushFrame(kind) ==
  LET f == [owner |-> running, serial |-> entries + 1, kind |-> kind] IN
  /\ kstack' = [kstack EXCEPT ![running] = Append(@, f)]
  /\ entries' = entries + 1

\* exception exit through frame f: execution resumes on the stack holding f,
\* which is unstacked together with anything above it
PopTo(by, f) ==
  /\ restored' = [by |-> by, frame |-> f,
                  latest |-> IF current_process = NULL THEN NoFrame
                             ELSE Top(kstack[current_process])]
  /\ IF f.owner # NULL /\ \E k \in DOMAIN kstack[f.owner] : kstack[f.owner][k] = f
     THEN LET k == CHOOSE j \in DOMAIN kstack[f.owner] : kstack[f.owner][j] = f
          IN  /\ kstack' = [kstack EXCEPT ![f.owner] = SubSeq(@, 1, k - 1)]
              /\ running' = f.owner
              /\ sched_mode' = sched_mode
     ELSE /\ sched_mode' = "halt"
          /\ UNCHANGED <<kstack, running>>

\* one more pass of the irq_handler loop in the record of the invocation
LogPass(log, e) ==
  IF Len(log) < MaxLog THEN Append(log, e) ELSE Append(Tail(log), e)

\* faulty variant of irq_pass: a line without handler gets no end-of-interrupt
irq_pass_noeoi(irq) ==
  IF irq = GIC_SPURIOUS_IRQ \/ irq \notin (Registered \cup {IRQ_TIMER_VIRT, 30})
  THEN [ack |-> irq, eois |-> <<>>]
  ELSE [ack |-> irq, eois |-> <<irq>>]
\* one pass of the irq_handler loop: acknowledge, dispatch, end-of-interrupt
irq_pass(irq) ==
  IF irq = GIC_SPURIOUS_IRQ
  THEN [ack |-> irq, eois |-> <<>>]
  ELSE [ack |-> irq, eois |-> <<irq>>]

\* IRQ vector: taken from user code and from a syscall (IRQs are enabled there)
IrqEntry ==
  /\ sched_mode = "run"
  /\ ~pstate_i
  /\ pending # {}
  /\ entries < MaxEntries
  /\ PushFrame("irq")
  /\ in_irq' = TRUE
  /\ pstate_i' = TRUE
  /\ gic_log' = <<>>
  /\ irq_regs' = [owner |-> running, serial |-> entries + 1, kind |-> "irq"]
  /\ ret_regs' = [owner |-> running, serial |-> entries + 1, kind |-> "irq"]
  /\ UNCHANGED <<process_pool, process_count, current_pid, current_process,
                 context, running, pending, jiffies, restored, picks,
                 sched_mode, proc_state, ttbr0, esr_el1, svc>>
  /\ UNCHANGED nonSchedVars

\* irq_handler loop, the timer line acknowledged: timer_handler(regs)
IrqTimer ==
  /\ sched_mode = "run"
  /\ in_irq
  /\ IRQ_TIMER_VIRT \in pending
  /\ LET r == schedule(irq_regs) IN
     /\ context' = r.context
     /\ current_pid' = r.current_pid
     /\ current_process' = r.current_process
     /\ ret_regs' = r.ret
     /\ proc_state' = r.proc_state
     /\ ttbr0' = r.ttbr0
     /\ picks' = Append(picks, r.current_pid)
  /\ jiffies' = jiffies + 1
  /\ pending' = pending \ {IRQ_TIMER_VIRT}
  /\ gic_log' = LogPass(gic_log, irq_pass(IRQ_TIMER_VIRT))
  /\ UNCHANGED <<process_pool, process_count, kstack, running, in_irq,
                 irq_regs, restored, entries, sched_mode, esr_el1, svc,
                 pstate_i>>
  /\ UNCHANGED nonSchedVars

\* irq_handler loop, another line acknowledged: its registered handler runs,
\* or the line is reported as unhandled
IrqDevice ==
  \E line \in pending \ {IRQ_TIMER_VIRT} :
    /\ sched_mode = "run"
    /\ in_irq
    /\ pending' = pending \ {line}
    /\ gic_log' = LogPass(gic_log, irq_pass(line))
    /\ IF line \in Registered
       THEN \E closes \in BOOLEAN :
              pstate_i' = virtio_input_handler_daif(pstate_i, closes)
       ELSE pstate_i' = pstate_i
    /\ UNCHANGED <<process_pool, process_count, current_pid, current_process,
                   context, kstack, running, in_irq, irq_regs, ret_regs,
                   jiffies, restored, picks, entries, sched_mode, proc_state,
                   ttbr0, esr_el1, svc>>
    /\ UNCHANGED nonSchedVars

\* irq_handler reads the spurious id and returns ret_regs to the vector, whose
\* exception return restores the interrupt mask of the frame (clear)
IrqReturn ==
  /\ sched_mode = "run"
  /\ in_irq
  /\ pending = {}
  /\ PopTo("irq", ret_regs)
  /\ in_irq' = FALSE
  /\ pstate_i' = FALSE
  /\ gic_log' = LogPass(gic_log, irq_pass(GIC_SPURIOUS_IRQ))
  /\ UNCHANGED <<process_pool, process_count, current_pid, current_process,
                 context, irq_regs, ret_regs, pending, jiffies, picks, entries,
                 proc_state, ttbr0, esr_el1, svc>>
  /\ UNCHANGED nonSchedVars

\* synchronous exception from user code: the syndrome register takes the
\* class, the frame is stacked, and syscall_handler begins by unmasking IRQs
SyncEntry(kind, ec, Nrs) ==
  \E nr \in Nrs :
    /\ sched_mode = "run"
    /\ ~in_irq
    /\ kstack[running] = <<>>
    /\ entries < MaxEntries
    /\ PushFrame(kind)
    /\ esr_el1' = ec
    /\ pstate_i' = local_irq_enable(TRUE)
    /\ LET r == [x0 |-> 1, x2 |-> 3, x8 |-> nr] IN
       svc' = [svc EXCEPT ![running] =
                 [by |-> kind, ec |-> EC_UNREAD, regs |-> r, entry |-> r]]
    /\ UNCHANGED <<process_pool, process_count, current_pid, current_process,
                   context, running, in_irq, irq_regs, ret_regs, pending,
                   jiffies, restored, picks, sched_mode, proc_state, ttbr0,
                   gic_log>>
    /\ UNCHANGED nonSchedVars

\* supervisor call from user code: getpid
SvcEntry == SyncEntry("svc", EC_SVC, {172})

\* supervisor call from user code, with any number in x8
SvcEntryAny == SyncEntry("svc", EC_SVC, SvcNrs)

\* data abort in user code
UserFault == SyncEntry("abt", EC_DABT_LOW, SvcNrs)

\* the switch of syscall_handler on x8
syscall_switch(regs) ==
  CASE regs.x8 = 172 -> [regs EXCEPT !.x0 = current_process]
    [] regs.x8 \in KnownSyscalls -> regs
    [] OTHER -> [regs EXCEPT !.x0 = -1]

\* syscall_handler after local_irq_enable: the syndrome register is read and
\* examined, then the call is dispatched or the process exits
SvcDispatch ==
  /\ sched_mode = "run"
  /\ ~in_irq
  /\ Top(kstack[running]).kind \in {"svc", "abt"}
  /\ svc[running].ec = EC_UNREAD
  /\ svc' = [svc EXCEPT ![running] =
               [@ EXCEPT !.ec = esr_el1,
                         !.regs = IF esr_el1 # EC_SVC THEN @
                                  ELSE syscall_switch(@)]]
  /\ UNCHANGED <<process_pool, process_count, current_pid, current_process,
                 context, kstack, running, in_irq, irq_regs, ret_regs,
                 pending, jiffies, restored, picks, entries, sched_mode,
                 proc_state, ttbr0, esr_el1, pstate_i, gic_log>>
  /\ UNCHANGED nonSchedVars

\* syscall_handler returns its own frame, unless the case taken was sys_exit
SvcReturn ==
  /\ sched_mode = "run"
  /\ ~in_irq
  /\ Top(kstack[running]).kind \in {"svc", "abt"}
  /\ svc[running].ec = EC_SVC
  /\ svc[running].regs.x8 # SYS_EXIT
  /\ PopTo("svc", Top(kstack[running]))
  /\ svc' = [svc EXCEPT ![running] = NoSvc]
  /\ pstate_i' = FALSE
  /\ UNCHANGED <<process_pool, process_count, current_pid, current_process,
                 context, in_irq, irq_regs, ret_regs, pending, jiffies, picks,
                 entries, proc_state, ttbr0, esr_el1, gic_log>>
  /\ UNCHANGED nonSchedVars

InitSched ==
  /\ PmmOff
  /\ VmmOff
  /\ SchedOff
  /\ VqOff
  /\ CwOff
  /\ InOff
  /\ ElfOff
  /\ WmOff
  /\ TwOff
  /\ KmOff
  /\ PrOff

NextSched ==
  \/ ProcessCreate
  \/ StartUserProcess
  \/ RaiseIrq
  \/ IrqEntry
  \/ IrqTimer
  \/ IrqDevice
  \/ IrqReturn
  \/ SvcEntry
  \/ SvcDispatch
  \/ SvcReturn

SpecSched == InitSched /\ [][NextSched]_vars

\* user code that issues any call number and may fault
NextSync ==
  \/ ProcessCreate
  \/ StartUserProcess
  \/ RaiseIrq
  \/ IrqEntry
  \/ IrqTimer
  \/ IrqDevice
  \/ IrqReturn
  \/ SvcEntryAny
  \/ UserFault
  \/ SvcDispatch
  \/ SvcReturn

SpecSync == InitSched /\ [][NextSync]_vars

\* interrupts of every kind taken from user code
NextIrq ==
  \/ ProcessCreate
  \/ StartUserProcess
  \/ RaiseAnyIrq
  \/ IrqEntry
  \/ IrqTimer
  \/ IrqDevice
  \/ IrqReturn

SpecIrq == InitSched /\ [][NextIrq]_vars

\* C1: every process's context pointer refers to a frame saved for that
\* process, and the frame a handler returns to the exception exit is the most
\* recently saved frame of the process that is current at that moment.
C1_ContextIsOwnFrame ==
  /\ \A pid \in DOMAIN context : context[pid].owner = pid
  /\ restored.by # "none" => restored.frame = restored.latest

\* number of times slot i occurs in positions a .. b of picks
RECURSIVE CountPicks(_, _, _)
CountPicks(i, a, b) ==
  IF a > b THEN 0
  ELSE (IF picks[a] = i THEN 1 ELSE 0) + CountPicks(i, a + 1, b)

\* C4: schedule() selects the slots in cyclic order, and in every window of
\* process_count * k consecutive ticks every slot is selected exactly k times.
C4_RoundRobin ==
  /\ \A j \in 1 .. (Len(picks) - 1) :
        picks[j + 1] = (picks[j] + 1) % process_count
  /\ \A k \in 1 .. MaxTicks : \A a \in 1 .. Len(picks) :
        a + process_count * k - 1 <= Len(picks) =>
          \A i \in 0 .. (process_count - 1) :
             CountPicks(i, a, a + process_count * k - 1) = k

\* two full rounds over three processes have been scheduled
C4_Witness ==
  /\ process_count = 3
  /\ Len(picks) = 6

\* C27: a schedule(frame) call made while a process is current stores frame
\* as that process's context and takes it out of the running state, makes
\* the next slot in cyclic order current, installs that process's
\* translation table and returns its context; so at any time exactly the
\* current process is in the running state and TTBR0 holds its table.
C27_OneRunningProcess ==
  /\ [][(picks' # picks /\ current_process # NULL) =>
         /\ context'[current_process] = irq_regs
         /\ current_process' # current_process =>
               proc_state'[current_process] # PROC_RUNNING
         /\ current_pid' = (current_pid + 1) % process_count
         /\ current_process' = process_pool[current_pid' + 1]
         /\ ttbr0' = page_table(current_process')
         /\ ret_regs' = context'[current_process']]_vars
  /\ [](sched_mode = "run" =>
         /\ {pid \in DOMAIN proc_state : proc_state[pid] = PROC_RUNNING}
              = {current_process}
         /\ ttbr0 = page_table(current_process))

C29_OneEoiPerAck ==
  /\ \A k \in DOMAIN gic_log :
        IF gic_log[k].ack = GIC_SPURIOUS_IRQ
        THEN gic_log[k].eois = <<>> /\ k = Len(gic_log) /\ ~in_irq
        ELSE gic_log[k].eois = <<gic_log[k].ack>>
  /\ (~in_irq /\ gic_log # <<>>) =>
        gic_log[Len(gic_log)].ack = GIC_SPURIOUS_IRQ

\* an invocation that handled the unhandled line, then read the spurious id
C29_Witness ==
  /\ ~in_irq
  /\ Len(gic_log) = 2
  /\ gic_log[1].ack = IRQ_NO_HANDLER
  /\ gic_log[2].ack = GIC_SPURIOUS_IRQ

\* C26: the exception class syscall_handler examines is the class of the
\* exception that made the process enter it: a supervisor call is dispatched
\* as a syscall whatever other processes did in between.
C26_ClassIsOwnSyndrome ==
  \A pid \in DOMAIN svc :
    svc[pid].ec # EC_UNREAD =>
      svc[pid].ec = (IF svc[pid].by = "svc" THEN EC_SVC ELSE EC_DABT_LOW)

\* C25: for a call number without a case, syscall_handler writes -1 to x0 of
\* the saved frame and changes no other saved register, no process-table,
\* compositor or allocator state, and it returns the frame it was given.
C25_UnknownSyscall ==
  /\ [](\A pid \in DOMAIN svc :
          (/\ svc[pid].by = "svc"
           /\ svc[pid].entry.x8 \notin KnownSyscalls
           /\ svc[pid].ec # EC_UNREAD) =>
            svc[pid].regs = [svc[pid].entry EXCEPT !.x0 = -1])
  /\ [][(\E pid \in DOMAIN svc :
            /\ svc[pid].ec = EC_UNREAD
            /\ svc'[pid].ec # EC_UNREAD
            /\ svc[pid].entry.x8 \notin KnownSyscalls) =>
          UNCHANGED <<process_pool, process_count, current_pid,
                      current_process, proc_state, context, wmVars,
                      pmmVars>>]_vars
  /\ [][(restored' # restored /\ restored'.by = "svc") =>
          restored'.frame = Top(kstack[running])]_vars

----------------------------------------------------------------------------
(* Synchronous virtqueue requests: virtio_blk_read / virtio_blk_write at   *)
(* boot, and virtio_gpu_send as called by virtio_gpu_flush from the        *)
(* render path of syscalls and of the input IRQ handler.                   *)

\* synchronous requests (block) or flushes (GPU) begun per behaviour
MaxVqReq == 2

VqProcs == {"p1", "p2"}
\* virtio_gpu_flush sends TRANSFER_TO_HOST_2D, then RESOURCE_FLUSH
FlushSends == 2

\* where a context goes when its render is over
VqHome(c) == IF c = "irq" THEN "ret" ELSE "idle"

\* frames among the addresses of a chain (static buffers are not frames)
ChainFrames(chain) ==
  {chain[i] : i \in DOMAIN chain} \ ({NULL} \cup ReservedAddrs)

\* virtio_blk_read / virtio_blk_write is entered (boot context, IRQs masked)
BlkBegin ==
  /\ vq_kind = "blk"
  /\ vq_active = "boot"
  /\ vq_pc["boot"] = "idle"
  /\ vq_started < MaxVqReq
  /\ vq_pc' = [vq_pc EXCEPT !["boot"] = "desc"]
  /\ vq_started' = vq_started + 1
  /\ UNCHANGED <<vq_kind, vq_desc, vq_avail_idx, vq_used_idx, vq_kick,
                 vq_dev_idx, vq_pages, vq_wait, vq_sends, vq_active,
                 vq_resume, vq_sampled>>
  /\ UNCHANGED <<pmmVars, nonVqVars>>

\* virtio_gpu_flush is entered: cmd_page and resp_page are allocated
GpuFlushBegin ==
  /\ vq_kind = "gpu"
  /\ vq_active # "boot"
  /\ vq_pc[vq_active] = (IF vq_active = "irq" THEN "render" ELSE "idle")
  /\ vq_active # "irq" => vq_started < MaxVqReq
  /\ \E a \in {pmm_alloc_page(PmmState)} : \E b \in {pmm_alloc_page(a.st)} :
       /\ SetPmm(b.st)
       /\ pmm_ret' = {a.ret, b.ret} \ {NULL}
       /\ pmm_out' = pmm_out \cup ({a.ret, b.ret} \ {NULL})
       /\ IF a.ret = NULL \/ b.ret = NULL
          THEN /\ vq_pc' = [vq_pc EXCEPT ![vq_active] = VqHome(vq_active)]
               /\ UNCHANGED <<vq_pages, vq_sends>>
          ELSE /\ vq_pc' = [vq_pc EXCEPT ![vq_active] = "desc"]
               /\ vq_pages' = [vq_pages EXCEPT ![vq_active] = <<a.ret, b.ret>>]
               /\ vq_sends' = [vq_sends EXCEPT ![vq_active] = FlushSends]
  /\ vq_started' = IF vq_active = "irq" THEN vq_started ELSE vq_started + 1
  /\ UNCHANGED <<vq_kind, vq_desc, vq_avail_idx, vq_used_idx, vq_kick,
                 vq_dev_idx, vq_wait, vq_active, vq_resume, vq_sampled>>
  /\ UNCHANGED <<total_pages, pmm_strays, pmm_last, nonVqVars>>

\* the descriptors of the chain are written
SendDesc ==
  /\ vq_pc[vq_active] = "desc"
  /\ vq_desc' = IF vq_kind = "gpu" THEN vq_pages[vq_active]
                ELSE <<KernelImageAddr, KernelImageAddr, KernelImageAddr>>
  /\ vq_pc' = [vq_pc EXCEPT ![vq_active] = "avail"]
  /\ vq_sampled' = [vq_sampled EXCEPT ![vq_active] = FALSE]
  /\ UNCHANGED <<vq_kind, vq_avail_idx, vq_used_idx, vq_kick, vq_dev_idx,
                 vq_pages, vq_wait, vq_sends, vq_active, vq_resume, vq_started>>
  /\ UNCHANGED <<pmmVars, nonVqVars>>

\* avail->ring[idx] = 0; avail->idx++
SendAvail ==
  /\ vq_pc[vq_active] = "avail"
  /\ vq_avail_idx' = (vq_avail_idx + 1) % IdxMod
  /\ vq_pc' = [vq_pc EXCEPT ![vq_active] = "notify"]
  /\ UNCHANGED <<vq_kind, vq_desc, vq_used_idx, vq_kick, vq_dev_idx, vq_pages,
                 vq_wait, vq_sends, vq_active, vq_resume, vq_started,
                 vq_sampled>>
  /\ UNCHANGED <<pmmVars, nonVqVars>>

\* the notify register is written
SendNotify ==
  /\ vq_pc[vq_active] = "notify"
  /\ vq_kick' = TRUE
  /\ vq_pc' = [vq_pc EXCEPT ![vq_active] = "sample"]
  /\ UNCHANGED <<vq_kind, vq_desc, vq_avail_idx, vq_used_idx, vq_dev_idx,
                 vq_pages, vq_wait, vq_sends, vq_active, vq_resume,
                 vq_started, vq_sampled>>
  /\ UNCHANGED <<pmmVars, nonVqVars>>

\* wait_idx = used->idx
SendSample ==
  /\ vq_pc[vq_active] = "sample"
  /\ vq_wait' = [vq_wait EXCEPT ![vq_active] = vq_used_idx]
  /\ vq_sampled' = [vq_sampled EXCEPT ![vq_active] = TRUE]
  /\ vq_pc' = [vq_pc EXCEPT ![vq_active] = "spin"]
  /\ UNCHANGED <<vq_kind, vq_desc, vq_avail_idx, vq_used_idx, vq_kick,
                 vq_dev_idx, vq_pages, vq_sends, vq_active, vq_resume,
                 vq_started>>
  /\ UNCHANGED <<pmmVars, nonVqVars>>

\* the busy-wait sees used->idx != wait_idx and the request returns
SendSpin ==
  /\ vq_pc[vq_active] = "spin"
  /\ vq_used_idx # vq_wait[vq_active]
  /\ IF vq_kind = "gpu"
     THEN /\ vq_sends' = [vq_sends EXCEPT ![vq_active] = @ - 1]
          /\ vq_pc' = [vq_pc EXCEPT ![vq_active] =
                         IF vq_sends[vq_active] > 1 THEN "desc" ELSE "free"]
     ELSE /\ vq_pc' = [vq_pc EXCEPT ![vq_active] = "idle"]
          /\ UNCHANGED vq_sends
  /\ UNCHANGED <<vq_kind, vq_desc, vq_avail_idx, vq_used_idx, vq_kick,
                 vq_dev_idx, vq_pages, vq_wait, vq_active, vq_resume,
                 vq_started, vq_sampled>>
  /\ UNCHANGED <<pmmVars, nonVqVars>>

\* virtio_gpu_flush frees cmd_page and resp_page and returns
GpuFlushEnd ==
  /\ vq_pc[vq_active] = "free"
  /\ \E a \in {pmm_free_page(PmmState, total_pages, vq_pages[vq_active][1])} :
       SetPmm(pmm_free_page(a, total_pages, vq_pages[vq_active][2]))
  /\ pmm_ret' = {}
  /\ pmm_out' = pmm_out \ {vq_pages[vq_active][1], vq_pages[vq_active][2]}
  /\ vq_pages' = [vq_pages EXCEPT ![vq_active] = <<NULL, NULL>>]
  /\ vq_pc' = [vq_pc EXCEPT ![vq_active] = VqHome(vq_active)]
  /\ UNCHANGED <<vq_kind, vq_desc, vq_avail_idx, vq_used_idx, vq_kick,
                 vq_dev_idx, vq_wait, vq_sends, vq_active, vq_resume,
                 vq_started, vq_sampled>>
  /\ UNCHANGED <<total_pages, pmm_strays, pmm_last, nonVqVars>>

\* timer tick while a process runs (in user code or in a syscall, where IRQs
\* are enabled): schedule() switches to the other process
VqPreempt ==
  /\ vq_kind = "gpu"
  /\ vq_active \in VqProcs
  /\ vq_active' = CHOOSE c \in VqProcs : c # vq_active
  /\ UNCHANGED <<vq_kind, vq_desc, vq_avail_idx, vq_used_idx, vq_kick,
                 vq_dev_idx, vq_pc, vq_pages, vq_wait, vq_sends, vq_resume,
                 vq_started, vq_sampled>>
  /\ UNCHANGED <<pmmVars, nonVqVars>>

\* input IRQ while a process runs: virtio_input_handler finds events and
\* calls compositor_render()
VqInputIrq ==
  /\ vq_kind = "gpu"
  /\ vq_active \in VqProcs
  /\ vq_started < MaxVqReq
  /\ vq_resume' = vq_active
  /\ vq_active' = "irq"
  /\ vq_pc' = [vq_pc EXCEPT !["irq"] = "render"]
  /\ vq_started' = vq_started + 1
  /\ UNCHANGED <<vq_kind, vq_desc, vq_avail_idx, vq_used_idx, vq_kick,
                 vq_dev_idx, vq_pages, vq_wait, vq_sends, vq_sampled>>
  /\ UNCHANGED <<pmmVars, nonVqVars>>

\* the IRQ handler returns to the interrupted context
VqIrqExit ==
  /\ vq_active = "irq"
  /\ vq_pc["irq"] = "ret"
  /\ vq_active' = vq_resume
  /\ vq_pc' = [vq_pc EXCEPT !["irq"] = "idle"]
  /\ UNCHANGED <<vq_kind, vq_desc, vq_avail_idx, vq_used_idx, vq_kick,
                 vq_dev_idx, vq_pages, vq_wait, vq_sends, vq_resume,
                 vq_started, vq_sampled>>
  /\ UNCHANGED <<pmmVars, nonVqVars>>

\* the device, once notified, consumes one available entry: it follows the
\* descriptors as they are now and advances used->idx
DeviceProcess ==
  /\ vq_kick
  /\ vq_dev_idx # vq_avail_idx
  /\ vq_dev_idx' = (vq_dev_idx + 1) % IdxMod
  /\ vq_used_idx' = (vq_used_idx + 1) % IdxMod
  /\ vq_kick' = ((vq_dev_idx + 1) % IdxMod # vq_avail_idx)
  /\ UNCHANGED <<vq_kind, vq_desc, vq_avail_idx, vq_pc, vq_pages, vq_wait,
                 vq_sends, vq_active, vq_resume, vq_started, vq_sampled>>
  /\ UNCHANGED <<pmmVars, nonVqVars>>

InitVq ==
  /\ PmmOff
  /\ VmmOff
  /\ SchedOff
  /\ CwOff
  /\ InOff
  /\ ElfOff
  /\ WmOff
  /\ TwOff
  /\ KmOff
  /\ PrOff
  /\ vq_kind \in {"blk", "gpu"}
  /\ vq_desc = <<>>
  /\ vq_avail_idx = 0
  /\ vq_used_idx = 0
  /\ vq_kick = FALSE
  /\ vq_dev_idx = 0
  /\ vq_pc = [c \in VqCtx |-> "idle"]
  /\ vq_pages = [c \in VqCtx |-> <<NULL, NULL>>]
  /\ vq_wait = [c \in VqCtx |-> 0]
  /\ vq_sends = [c \in VqCtx |-> 0]
  /\ vq_active = (IF vq_kind = "blk" THEN "boot" ELSE "p1")
  /\ vq_resume = "p1"
  /\ vq_started = 0
  /\ vq_sampled = [c \in VqCtx |-> FALSE]

\* a step of the driver code of context c
VqStep(c) ==
  /\ vq_active = c
  /\ \/ BlkBegin
     \/ GpuFlushBegin
     \/ SendDesc
     \/ SendAvail
     \/ SendNotify
     \/ SendSample
     \/ SendSpin
     \/ GpuFlushEnd
     \/ VqIrqExit

NextVq ==
  \/ BlkBegin
  \/ GpuFlushBegin
  \/ SendDesc
  \/ SendAvail
  \/ SendNotify
  \/ SendSample
  \/ SendSpin
  \/ GpuFlushEnd
  \/ VqPreempt
  \/ VqInputIrq
  \/ VqIrqExit
  \/ DeviceProcess

\* The CPU keeps executing the code of the context it runs, the timer keeps
\* ticking, and the device completes every request it was notified of.
SpecVq ==
  /\ InitVq
  /\ [][NextVq]_vars
  /\ \A c \in VqCtx : SF_vars(VqStep(c))
  /\ WF_vars(VqPreempt)
  /\ WF_vars(DeviceProcess)

VqInFlight == (vq_avail_idx - vq_used_idx) % IdxMod

\* C5: at most one request is in flight on the queue, and while a request is
\* in flight its descriptors are not rewritten and the frames they point to
\* stay allocated.
C5_SingleInFlight ==
  /\ [](VqInFlight <= 1)
  /\ [][vq_desc' # vq_desc => VqInFlight = 0]_vars
  /\ [](VqInFlight # 0 => ChainFrames(vq_desc) \subseteq BitmapUsed)

VqWaiting(c) == vq_pc[c] \in {"notify", "sample", "spin"}

\* C7: every request that was made available returns, given that the device
\* completes every request it was notified of.
C7_RequestReturns ==
  \A c \in VqCtx : (vq_pc[c] = "notify") ~> ~VqWaiting(c)

\* C8: used->idx is sampled before avail->idx is advanced and before the
\* notify register is written, and the busy-wait ends only when used->idx
\* differs from the sample.
C8_SampleBeforeSubmit ==
  /\ [][\A c \in VqCtx :
          (vq_pc[c] \in {"avail", "notify"} /\ vq_pc'[c] # vq_pc[c])
             => vq_sampled[c]]_vars
  /\ [][\A c \in VqCtx :
          (vq_pc[c] = "spin" /\ vq_pc'[c] # "spin")
             => vq_used_idx # vq_wait[c]]_vars

----------------------------------------------------------------------------
(* Terminal write path: sys_write -> compositor_window_write, which calls  *)
(* compositor_draw_rect for every printable character.                     *)

\* characters of one write
MaxChars == 3

\* the characters told apart: printable, newline, escape, and '['
CwAlphabet == {"A", "LF", "ESC", "["}

RECURSIVE SeqsUpTo(_, _)
SeqsUpTo(S, n) ==
  IF n = 0 THEN {<<>>}
  ELSE SeqsUpTo(S, n - 1)
       \cup {Append(q, x) : q \in {r \in SeqsUpTo(S, n - 1) : Len(r) = n - 1},
                            x \in S}

\* compositor_draw_rect leaves through local_irq_enable on every path
compositor_draw_rect(masked) == local_irq_enable(local_irq_disable(masked))

\* cursor after the wrap and scroll checks at the end of the loop body
CwWrap(t) ==
  LET y1 == IF t.cursor_x >= WinCols THEN t.cursor_y + 1 ELSE t.cursor_y
      x1 == IF t.cursor_x >= WinCols THEN 0 ELSE t.cursor_x
  IN  [t EXCEPT !.cursor_x = x1,
                !.cursor_y = IF y1 >= WinRows THEN WinRows - 1 ELSE y1]

\* the loop body for a character that draws nothing
CwControl(t, c) ==
  IF t.escape_state = 0
  THEN IF c = "ESC" THEN [t EXCEPT !.escape_state = 1]
       ELSE IF c = "LF" THEN [t EXCEPT !.cursor_x = 0, !.cursor_y = @ + 1]
       ELSE t
  ELSE IF t.escape_state = 1
  THEN [t EXCEPT !.escape_state = IF c = "[" THEN 2 ELSE 0]
  ELSE IF c = "A" THEN [t EXCEPT !.escape_state = 0]
       ELSE t

\* sys_write: the syscall runs with IRQs enabled; the window is looked up
CwEnter ==
  \E id \in WinIds \cup {0}, buf \in SeqsUpTo(CwAlphabet, MaxChars) :
    /\ cw_pc = "user"
    /\ irq_masked' = local_irq_enable(irq_masked)
    /\ IF id \in WinIds
       THEN cw_win' = id /\ cw_chars' = buf /\ cw_pc' = "found"
       ELSE UNCHANGED <<cw_win, cw_chars, cw_pc>>
    /\ UNCHANGED <<ctx_buffer, cw_saved, win_term, cw_seen>>
    /\ UNCHANGED nonCwVars

\* local_irq_disable(); the context is pointed at the window's buffer
CwRedirect ==
  /\ cw_pc = "found"
  /\ irq_masked' = local_irq_disable(irq_masked)
  /\ cw_saved' = ctx_buffer
  /\ ctx_buffer' = WinBuffer(cw_win)
  /\ cw_pc' = "loop"
  /\ UNCHANGED <<cw_win, cw_chars, win_term, cw_seen>>
  /\ UNCHANGED nonCwVars

\* a printable character outside an escape sequence: its cell is cleared
CwClearCell ==
  /\ cw_pc = "loop"
  /\ cw_chars # <<>>
  /\ Head(cw_chars) = "A"
  /\ win_term[cw_win].escape_state = 0
  /\ irq_masked' = compositor_draw_rect(irq_masked)
  /\ cw_pc' = "glyph"
  /\ UNCHANGED <<ctx_buffer, cw_win, cw_chars, cw_saved, win_term, cw_seen>>
  /\ UNCHANGED nonCwVars

\* graphics_draw_char, cursor_x++, and the wrap and scroll checks
CwPutChar ==
  /\ cw_pc = "glyph"
  /\ win_term' = [win_term EXCEPT ![cw_win] =
                    CwWrap([@ EXCEPT !.cursor_x = @ + 1])]
  /\ cw_chars' = Tail(cw_chars)
  /\ cw_pc' = "loop"
  /\ UNCHANGED <<irq_masked, ctx_buffer, cw_win, cw_saved, cw_seen>>
  /\ UNCHANGED nonCwVars

\* any other character: cursor and escape state only
CwControlChar ==
  /\ cw_pc = "loop"
  /\ cw_chars # <<>>
  /\ ~(Head(cw_chars) = "A" /\ win_term[cw_win].escape_state = 0)
  /\ win_term' = [win_term EXCEPT ![cw_win] = CwWrap(CwControl(@, Head(cw_chars)))]
  /\ cw_chars' = Tail(cw_chars)
  /\ UNCHANGED <<irq_masked, ctx_buffer, cw_pc, cw_win, cw_saved, cw_seen>>
  /\ UNCHANGED nonCwVars

\* the screen buffer is put back
CwRestore ==
  /\ cw_pc = "loop"
  /\ cw_chars = <<>>
  /\ ctx_buffer' = cw_saved
  /\ cw_pc' = "render"
  /\ UNCHANGED <<irq_masked, cw_win, cw_chars, cw_saved, win_term, cw_seen>>
  /\ UNCHANGED nonCwVars

\* compositor_render(); local_irq_enable(); return
CwRenderReturn ==
  /\ cw_pc = "render"
  /\ irq_masked' = local_irq_enable(irq_masked)
  /\ cw_pc' = "user"
  /\ UNCHANGED <<ctx_buffer, cw_win, cw_chars, cw_saved, win_term, cw_seen>>
  /\ UNCHANGED nonCwVars

\* an IRQ is taken (timer or input): its handler runs and finds g_ctx.buffer;
\* the exception return puts the mask back as it was
CwInterrupt ==
  /\ ~irq_masked
  /\ cw_seen' = ctx_buffer
  /\ cw_seen' # cw_seen
  /\ UNCHANGED <<irq_masked, ctx_buffer, cw_pc, cw_win, cw_chars, cw_saved,
                 win_term>>
  /\ UNCHANGED nonCwVars

InitCw ==
  /\ PmmOff
  /\ VmmOff
  /\ SchedOff
  /\ VqOff
  /\ CwOff
  /\ InOff
  /\ ElfOff
  /\ WmOff
  /\ TwOff
  /\ KmOff
  /\ PrOff

NextCw ==
  \/ CwEnter
  \/ CwRedirect
  \/ CwClearCell
  \/ CwPutChar
  \/ CwControlChar
  \/ CwRestore
  \/ CwRenderReturn
  \/ CwInterrupt

SpecCw == InitCw /\ [][NextCw]_vars

\* C6: IRQs are masked from the redirection of the graphics context to the
\* return of compositor_window_write, no IRQ handler finds the context
\* redirected, and the window record changes only while IRQs are masked.
C6_MaskedWhileRedirected ==
  /\ [](cw_pc \in {"loop", "glyph", "render"} => irq_masked)
  /\ [](cw_seen = ScreenBuffer)
  /\ [][win_term' # win_term => irq_masked]_vars

\* ---------------------------------------------------------------------------
\* VirtIO input event queue, the input event ring and the keyboard ring
\* (virtio_input.c, keyboard.c).  One hart: the syscall side advances only
\* while virtio_input_handler is not executing, and the handler, entered with
\* interrupts masked, runs to its return.
\* ---------------------------------------------------------------------------

\* events the device delivers in one run
MaxEvents == 5

\* pointer events (EV_REL, EV_ABS, BTN_LEFT) go to the compositor, every
\* other EV_KEY to the event ring
InputTypes == {"EV_KEY", "EV_REL"}

u16_inc(v) == (v + 1) % InIdxMod

return_descriptor_zero(ring, idx, id) ==
  [ring EXCEPT ![idx % INPUT_QSIZE] = 0]
return_descriptor(ring, idx, id) ==
  [ring EXCEPT ![idx % INPUT_QSIZE] = id]

virtio_input_add_event(buffer, head, tail, ev) ==
  LET next == (head + 1) % INPUT_BUFFER_SIZE
  IN [buffer |-> [buffer EXCEPT ![head] = ev],
      head |-> next,
      tail |-> IF next = tail THEN (tail + 1) % INPUT_BUFFER_SIZE ELSE tail]

\* c is the character the key maps to, 0 for a modifier, a release or an
\* unmapped code
keyboard_process_key(buffer, head, tail, c) ==
  LET next == (head + 1) % KB_BUFFER_SIZE
  IN IF c # 0 /\ next # tail
       THEN [buffer |-> [buffer EXCEPT ![head] = c], head |-> next, kept |-> 1]
       ELSE [buffer |-> buffer, head |-> head, kept |-> 0]

\* the device fills the next available buffer and completes it
InDeviceEvent ==
  /\ in_gen < MaxEvents
  /\ in_dev_idx # in_avail_idx
  /\ \E type \in InputTypes :
       LET id == in_avail_ring[in_dev_idx % INPUT_QSIZE]
       IN /\ in_events' = [in_events EXCEPT
                             ![id] = [type |-> type, serial |-> in_gen + 1]]
          /\ in_used_ring' = [in_used_ring EXCEPT
                                ![in_used_idx % INPUT_QSIZE] = id]
  /\ in_used_idx' = u16_inc(in_used_idx)
  /\ in_dev_idx' = u16_inc(in_dev_idx)
  /\ in_gen' = in_gen + 1
  /\ in_isr' = TRUE
  /\ UNCHANGED <<in_avail_ring, in_avail_idx, in_last_used_idx, in_handler,
                 input_buffer, input_head, input_tail, kb_buffer, kb_head,
                 kb_tail, rd_pc, rd_event, rd_tail, in_kept, in_polled,
                 in_last_polled, kb_kept, kb_popped, kb_last_popped>>
  /\ UNCHANGED nonInVars

\* virtio_input_handler: read and acknowledge the interrupt status
InIrqEnter ==
  /\ in_handler = "idle"
  /\ in_isr
  /\ in_isr' = FALSE
  /\ in_handler' = "drain"
  /\ UNCHANGED <<in_avail_ring, in_avail_idx, in_used_ring, in_used_idx,
                 in_last_used_idx, in_events, in_dev_idx, input_buffer,
                 input_head, input_tail, kb_buffer, kb_head, kb_tail, rd_pc,
                 rd_event, rd_tail, in_gen, in_kept, in_polled,
                 in_last_polled, kb_kept, kb_popped, kb_last_popped>>
  /\ UNCHANGED nonInVars

\* one iteration of the drain loop
InDrainOne ==
  /\ in_handler = "drain"
  /\ in_last_used_idx # in_used_idx
  /\ LET id == in_used_ring[in_last_used_idx % INPUT_QSIZE]
         evt == in_events[id]
     IN /\ IF evt.type = "EV_KEY"
             THEN \E r \in {virtio_input_add_event(input_buffer, input_head,
                                                   input_tail, evt)} :
                    /\ input_buffer' = r.buffer
                    /\ input_head' = r.head
                    /\ input_tail' = r.tail
                    /\ in_kept' = in_kept + 1
             ELSE UNCHANGED <<input_buffer, input_head, input_tail, in_kept>>
        /\ in_avail_ring' = return_descriptor(in_avail_ring, in_avail_idx, id)
  /\ in_avail_idx' = u16_inc(in_avail_idx)
  /\ in_last_used_idx' = u16_inc(in_last_used_idx)
  /\ UNCHANGED <<in_used_ring, in_used_idx, in_events, in_dev_idx, in_isr,
                 in_handler, kb_buffer, kb_head, kb_tail, rd_pc, rd_event,
                 rd_tail, in_gen, in_polled, in_last_polled, kb_kept,
                 kb_popped, kb_last_popped>>
  /\ UNCHANGED nonInVars

\* the used ring is drained: the handler returns
InIrqExit ==
  /\ in_handler = "drain"
  /\ in_last_used_idx = in_used_idx
  /\ in_handler' = "idle"
  /\ UNCHANGED <<in_avail_ring, in_avail_idx, in_used_ring, in_used_idx,
                 in_last_used_idx, in_events, in_dev_idx, in_isr, input_buffer,
                 input_head, input_tail, kb_buffer, kb_head, kb_tail, rd_pc,
                 rd_event, rd_tail, in_gen, in_kept, in_polled,
                 in_last_polled, kb_kept, kb_popped, kb_last_popped>>
  /\ UNCHANGED nonInVars

InSyscallKeep == <<in_avail_ring, in_avail_idx, in_used_ring, in_used_idx,
                   in_last_used_idx, in_events, in_dev_idx, in_isr,
                   in_handler, in_gen, in_kept>>

\* sys_read calls keyboard_read_char_nonblock, which starts keyboard_poll
KbReadEnter ==
  /\ in_handler = "idle"
  /\ rd_pc = "user"
  /\ rd_pc' = "poll"
  /\ UNCHANGED <<input_buffer, input_head, input_tail, kb_buffer, kb_head,
                 kb_tail, rd_event, rd_tail, in_polled, in_last_polled,
                 kb_kept, kb_popped, kb_last_popped>>
  /\ UNCHANGED InSyscallKeep
  /\ UNCHANGED nonInVars

\* virtio_input_poll: the emptiness test and the copy of the tail item
InPollCopy ==
  /\ in_handler = "idle"
  /\ rd_pc = "poll"
  /\ IF input_head = input_tail
       THEN /\ rd_pc' = "pop"
            /\ UNCHANGED rd_event
       ELSE /\ rd_event' = input_buffer[input_tail]
            /\ rd_pc' = "load"
  /\ UNCHANGED <<input_buffer, input_head, input_tail, kb_buffer, kb_head,
                 kb_tail, rd_tail, in_polled, in_last_polled, kb_kept,
                 kb_popped, kb_last_popped>>
  /\ UNCHANGED InSyscallKeep
  /\ UNCHANGED nonInVars

\* virtio_input_poll: the read of the volatile input_tail
InPollLoad ==
  /\ in_handler = "idle"
  /\ rd_pc = "load"
  /\ rd_tail' = input_tail
  /\ rd_pc' = "store"
  /\ UNCHANGED <<input_buffer, input_head, input_tail, kb_buffer, kb_head,
                 kb_tail, rd_event, in_polled, in_last_polled, kb_kept,
                 kb_popped, kb_last_popped>>
  /\ UNCHANGED InSyscallKeep
  /\ UNCHANGED nonInVars

\* virtio_input_poll stores the new tail and returns 1; keyboard_poll hands
\* an EV_KEY event to keyboard_process_key
InPollStore ==
  /\ in_handler = "idle"
  /\ rd_pc = "store"
  /\ input_tail' = (rd_tail + 1) % INPUT_BUFFER_SIZE
  /\ in_polled' = in_polled + 1
  /\ in_last_polled' = rd_event.serial
  /\ IF rd_event.type = "EV_KEY"
       THEN \E c \in {0, rd_event.serial} :
            \E r \in {keyboard_process_key(kb_buffer, kb_head, kb_tail, c)} :
              /\ kb_buffer' = r.buffer
              /\ kb_head' = r.head
              /\ kb_kept' = kb_kept + r.kept
       ELSE UNCHANGED <<kb_buffer, kb_head, kb_kept>>
  /\ rd_pc' = "poll"
  /\ UNCHANGED <<input_buffer, input_head, kb_tail, rd_event, rd_tail,
                 kb_popped, kb_last_popped>>
  /\ UNCHANGED InSyscallKeep
  /\ UNCHANGED nonInVars

\* keyboard_read_char_nonblock after keyboard_poll: -1, or the tail character
KbReadChar ==
  /\ in_handler = "idle"
  /\ rd_pc = "pop"
  /\ IF kb_head = kb_tail
       THEN UNCHANGED <<kb_tail, kb_popped, kb_last_popped>>
       ELSE /\ kb_last_popped' = kb_buffer[kb_tail]
            /\ kb_tail' = (kb_tail + 1) % KB_BUFFER_SIZE
            /\ kb_popped' = kb_popped + 1
  /\ rd_pc' = "user"
  /\ UNCHANGED <<input_buffer, input_head, input_tail, kb_buffer, kb_head,
                 rd_event, rd_tail, in_polled, in_last_polled, kb_kept>>
  /\ UNCHANGED InSyscallKeep
  /\ UNCHANGED nonInVars

InitIn ==
  /\ PmmOff
  /\ VmmOff
  /\ SchedOff
  /\ VqOff
  /\ CwOff
  /\ InOff
  /\ ElfOff
  /\ WmOff
  /\ TwOff
  /\ KmOff
  /\ PrOff

NextIn ==
  \/ InDeviceEvent
  \/ InIrqEnter
  \/ InDrainOne
  \/ InIrqExit
  \/ KbReadEnter
  \/ InPollCopy
  \/ InPollLoad
  \/ InPollStore
  \/ KbReadChar

SpecIn == InitIn /\ [][NextIn]_vars

\* descriptor ids posted and not yet taken by the device, in ring order
InOutstanding ==
  [k \in 1 .. ((in_avail_idx - in_dev_idx) % InIdxMod) |->
     in_avail_ring[(in_dev_idx + k - 1) % INPUT_QSIZE]]

\* descriptor ids completed by the device and not yet drained
InPending ==
  [k \in 1 .. ((in_used_idx - in_last_used_idx) % InIdxMod) |->
     in_used_ring[(in_last_used_idx + k - 1) % INPUT_QSIZE]]

InCount(seq, id) == Cardinality({k \in DOMAIN seq : seq[k] = id})

\* C9: whenever virtio_input_handler is not executing, avail->idx minus
\* last_used_idx equals the queue size modulo the index width, and every
\* descriptor is either posted to the device exactly once or completed and not
\* yet drained; every drained completion's descriptor index is put back into
\* the available ring at avail->idx, which advances by one, also across the
\* wrap-around of the indices.
C9_DescriptorsConserved ==
  /\ [](in_handler = "idle" =>
          /\ (in_avail_idx - in_last_used_idx) % InIdxMod
               = INPUT_QSIZE % InIdxMod
          /\ \A id \in 0 .. (INPUT_QSIZE - 1) :
               /\ InCount(InOutstanding, id) + InCount(InPending, id) = 1
               /\ InCount(InOutstanding, id) <= 1)
  /\ [][in_last_used_idx' # in_last_used_idx =>
          /\ in_avail_ring'[in_avail_idx % INPUT_QSIZE]
               = in_used_ring[in_last_used_idx % INPUT_QSIZE]
          /\ in_avail_idx' = (in_avail_idx + 1) % InIdxMod]_vars

\* both indices have wrapped, the handler has returned, and the queue holds
\* a posted and a completed descriptor
C9_Witness ==
  /\ in_handler = "idle"
  /\ in_gen > InIdxMod
  /\ in_last_used_idx < INPUT_QSIZE
  /\ in_avail_idx = (in_last_used_idx + INPUT_QSIZE) % InIdxMod
  /\ Len(InPending) = 1
  /\ Len(InOutstanding) = 1

InOccupancy == (input_head - input_tail) % INPUT_BUFFER_SIZE
KbOccupancy == (kb_head - kb_tail) % KB_BUFFER_SIZE

\* C10: the event ring and the keyboard ring are FIFO queues under any
\* interleaving of the interrupt-side producer with the syscall-side consumer:
\* the producer writes only the head index and the consumer only the tail
\* index, every item returned was produced, items come back in production
\* order and never twice, and no item stored in a ring is lost.
C10_RingsAreFifo ==
  /\ [][in_handler = "drain" => input_tail' = input_tail]_vars
  /\ [][in_handler = "idle" => input_head' = input_head]_vars
  /\ [][in_polled' # in_polled =>
          /\ rd_event.type = "EV_KEY"
          /\ rd_event.serial \in 1 .. in_gen
          /\ rd_event.serial > in_last_polled]_vars
  /\ [](rd_pc \in {"user", "poll", "pop"} =>
          in_kept = in_polled + InOccupancy)
  /\ [][kb_popped' # kb_popped =>
          /\ kb_last_popped' \in 1 .. in_gen
          /\ kb_last_popped' > kb_last_popped]_vars
  /\ [](kb_kept = kb_popped + KbOccupancy)

----------------------------------------------------------------------------
(* Windows, mouse and the kernel heap.  The heap is an array of cells, one *)
(* pixel each; a block is a header (magic, size) followed by its payload,  *)
(* and a window's buffer is the address of the payload of its block.       *)

\* compositor calls and input events per behaviour
MaxWmOps == 4
\* width of int, scaled down
IntBits == 4
IntMod == 2 ^ IntBits
\* title bar, close button and the gap of the button from the corner (20, 16
\* and 2 pixels), scaled down
TITLE_BAR_HEIGHT == 2
CLOSE_BUTTON_SIZE == 1
CLOSE_BUTTON_GAP == 1
\* block header and allocation granule in cells (32 and 16 bytes)
KHEADER == 2
KALIGN == 2
BLOCK_MAGIC == -1
BLOCK_FREED == -2
\* the colour process pid draws with
ColorOf(pid) == BG_COLOR + pid

\* an int after an arithmetic operation that wrapped
ToInt(n) == ((n + IntMod \div 2) % IntMod) - IntMod \div 2
\* conversion of an int to size_t
ToSize(n) == n % SizeMod

WmState ==
  [windows |-> windows, window_count |-> window_count,
   next_window_id |-> next_window_id, mouse_x |-> mouse_x,
   mouse_y |-> mouse_y, dragging_window_id |-> dragging_window_id,
   drag_off_x |-> drag_off_x, drag_off_y |-> drag_off_y, heap |-> heap,
   heap_ptr |-> heap_ptr, free_list |-> free_list, masked |-> irq_masked,
   screen |-> screen, fresh |-> screen_fresh]

SetWm(st) ==
  /\ windows' = st.windows
  /\ window_count' = st.window_count
  /\ next_window_id' = st.next_window_id
  /\ mouse_x' = st.mouse_x
  /\ mouse_y' = st.mouse_y
  /\ dragging_window_id' = st.dragging_window_id
  /\ drag_off_x' = st.drag_off_x
  /\ drag_off_y' = st.drag_off_y
  /\ heap' = st.heap
  /\ heap_ptr' = st.heap_ptr
  /\ free_list' = st.free_list
  /\ irq_masked' = st.masked
  /\ screen' = st.screen
  /\ screen_fresh' = st.fresh

\* a store to address a; an address outside the heap is other kernel memory
HeapStore(h, a, v) == IF a \in DOMAIN h THEN [h EXCEPT ![a] = v] ELSE h

MinOf(S) == CHOOSE i \in S : \A j \in S : i <= j
MaxOf(S) == CHOOSE i \in S : \A j \in S : j <= i

\* kmalloc: first fit in the free list, else the bump pointer
kmalloc(st, size) ==
  IF size = 0 THEN [st |-> st, ret |-> NULL]
  ELSE LET sz == (((size + KALIGN - 1) % SizeMod) \div KALIGN) * KALIGN
           total == (sz + KHEADER) % SizeMod
           fits == {k \in DOMAIN st.free_list :
                      st.heap[st.free_list[k] + 1] >= total}
       IN IF fits # {}
          THEN LET k == MinOf(fits)
                   block == st.free_list[k]
               IN [st |-> [st EXCEPT
                             !.free_list =
                                SubSeq(st.free_list, 1, k - 1)
                                  \o SubSeq(st.free_list, k + 1,
                                            Len(st.free_list)),
                             !.heap = HeapStore(st.heap, block, BLOCK_MAGIC)],
                   ret |-> block + KHEADER]
          ELSE IF st.heap_ptr + total > heap_end
          THEN [st |-> st, ret |-> NULL]
          ELSE [st |-> [st EXCEPT
                          !.heap = HeapStore(HeapStore(st.heap, st.heap_ptr,
                                                       BLOCK_MAGIC),
                                             st.heap_ptr + 1, total),
                          !.heap_ptr = st.heap_ptr + total],
                ret |-> st.heap_ptr + KHEADER]

kfree(st, ptr) ==
  IF ptr = NULL THEN st
  ELSE IF st.heap[ptr - KHEADER] # BLOCK_MAGIC THEN st
  ELSE [st EXCEPT !.heap = HeapStore(st.heap, ptr - KHEADER, BLOCK_FREED),
                  !.free_list = <<ptr - KHEADER>> \o st.free_list]

\* the protected flag compositor_create_window gives a window of process pid
window_protected(pid) == IF pid = 2 THEN 1 ELSE 0

\* compositor_create_window: ret is the id of the window, or -1
compositor_create_window(st, x, y, w, h, pid) ==
  Bind([st EXCEPT !.masked = local_irq_disable(st.masked)], LAMBDA s0 :
    IF s0.window_count >= MAX_WINDOWS
    THEN [st |-> [s0 EXCEPT !.masked = local_irq_enable(s0.masked)],
          ret |-> -1]
    ELSE IF \A i \in DOMAIN s0.windows : s0.windows[i].id # 0
    THEN [st |-> s0, ret |-> -1]
    ELSE Bind(kmalloc(s0, ToSize(ToInt(w * h))), LAMBDA k :
      IF k.ret = NULL THEN [st |-> k.st, ret |-> -1]
      ELSE LET slot == MinOf({i \in DOMAIN s0.windows : s0.windows[i].id = 0})
               cleared == [a \in DOMAIN k.st.heap |->
                             IF a >= k.ret /\ a < k.ret + ToInt(w * h)
                             THEN BG_COLOR ELSE k.st.heap[a]]
           IN [st |-> [k.st EXCEPT
                         !.heap = cleared,
                         !.windows[slot] =
                            [id |-> s0.next_window_id, x |-> x, y |-> y,
                             width |-> w, height |-> h,
                             z_order |-> s0.window_count, visible |-> 1,
                             pid |-> pid, protected |-> window_protected(pid),
                             buffer |-> k.ret],
                         !.next_window_id = ToInt(s0.next_window_id + 1),
                         !.window_count = s0.window_count + 1,
                         !.masked = local_irq_enable(s0.masked)],
               ret |-> s0.next_window_id]))

compositor_destroy_window_keepcount(st, window_id) ==
  LET found == {i \in DOMAIN st.windows : st.windows[i].id = window_id}
  IN IF found = {} THEN st
     ELSE Bind(kfree(st, st.windows[MinOf(found)].buffer), LAMBDA s1 :
            [s1 EXCEPT !.windows[MinOf(found)] = Window0])
compositor_destroy_window(st, window_id) ==
  LET found == {i \in DOMAIN st.windows : st.windows[i].id = window_id}
  IN IF found = {} THEN st
     ELSE Bind(kfree(st, st.windows[MinOf(found)].buffer), LAMBDA s1 :
            [s1 EXCEPT !.windows[MinOf(found)] = Window0,
                       !.window_count = st.window_count - 1])

\* the first of the slots in S whose z_order no slot in S exceeds
TopSlot(ws, S) == MinOf({i \in S : \A j \in S : ws[j].z_order <= ws[i].z_order})

VisibleSlots(ws) == {i \in DOMAIN ws : ws[i].id # 0 /\ ws[i].visible # 0}

\* compositor_get_focus_pid: pid of the top-most visible window, or -1
compositor_get_focus_pid(ws) ==
  IF VisibleSlots(ws) = {} THEN -1 ELSE ws[TopSlot(ws, VisibleSlots(ws))].pid

\* slots of the visible windows whose area, title bar included, holds (mx, my)
SlotsAt(ws, mx, my) ==
  {i \in VisibleSlots(ws) :
     /\ mx >= ws[i].x
     /\ mx < ws[i].x + ws[i].width
     /\ my >= ws[i].y - TITLE_BAR_HEIGHT
     /\ my < ws[i].y + ws[i].height}

\* (mx, my) lies in the close-button box of window w
InCloseButton(w, mx, my) ==
  LET btn_x == w.x + w.width - CLOSE_BUTTON_SIZE - CLOSE_BUTTON_GAP
      btn_y == w.y - TITLE_BAR_HEIGHT + CLOSE_BUTTON_GAP
  IN /\ mx >= btn_x
     /\ mx < btn_x + CLOSE_BUTTON_SIZE
     /\ my >= btn_y
     /\ my < btn_y + CLOSE_BUTTON_SIZE

close_allowed_always(w) == TRUE
\* the test compositor_handle_click makes before it looks at the close button
close_allowed(w) == w.protected = 0

\* colours of the decorations and of the pointer, without the alpha byte
TITLE_COLOR == 1579035
BORDER_COLOR == 2565930
CLOSE_COLOR == 13386820

\* the desktop colour of row y: red 20, green 40 + y * 40 / height, blue
\* 80 + y * 80 / height
Gradient(y) ==
  20 * 65536 + (40 + (y * 40) \div SCREEN_H) * 256 + (80 + (y * 80) \div SCREEN_H)

\* the stores of draw_window_decorations, as indices into ctx->buffer: each
\* loop with the bounds tests it makes
TitleStores(w) ==
  {py * SCREEN_W + px :
     px \in {p \in (w.x - 1) .. (w.x + w.width) : p >= 0 /\ p < SCREEN_W},
     py \in {p \in (w.y - TITLE_BAR_HEIGHT) .. (w.y - 1) : p >= 0 /\ p < SCREEN_H}}

BorderStores(w) ==
  LET rows == {p \in (w.y - TITLE_BAR_HEIGHT) .. (w.y + w.height) :
                 p >= 0 /\ p < SCREEN_H}
      cols == {p \in (w.x - 1) .. (w.x + w.width) : p >= 0 /\ p < SCREEN_W}
      px1 == w.x - 1
      px2 == w.x + w.width
      py1 == w.y - TITLE_BAR_HEIGHT - 1
      py2 == w.y + w.height
  IN  {py * SCREEN_W + px1 : py \in IF px1 >= 0 THEN rows ELSE {}}
        \cup {py * SCREEN_W + px2 : py \in IF px2 < SCREEN_W THEN rows ELSE {}}
        \cup {py1 * SCREEN_W + px : px \in IF py1 >= 0 THEN cols ELSE {}}
        \cup {py2 * SCREEN_W + px : px \in IF py2 < SCREEN_H THEN cols ELSE {}}

CloseStores(w) ==
  IF w.protected # 0 THEN {}
  ELSE {a \in 0 .. (SCREEN_W * SCREEN_H - 1) :
          InCloseButton(w, a % SCREEN_W, a \div SCREEN_W)}

\* win->buffer[wy * win->width + wx]; a load outside the heap reads other
\* kernel memory
WinPixel(h, w, wx, wy) ==
  Bind(w.buffer + ToInt(ToInt(wy * w.width) + wx), LAMBDA a :
    IF a \in DOMAIN h THEN h[a] ELSE 0)

\* what draw_window_decorations and the blit of the client area of window w
\* leave at index a of ctx->buffer, which held v: deco holds the stores of the
\* close button, the frame and the title bar; the decorations are drawn in
\* the order title bar, frame, close button, and the client area after them;
\* every pixel of the model is opaque
draw_window(v, h, w, deco, a) ==
  Bind(<<(a % SCREEN_W) - w.x, (a \div SCREEN_W) - w.y>>, LAMBDA l :
    IF l[1] >= 0 /\ l[1] < w.width /\ l[2] >= 0 /\ l[2] < w.height
    THEN WinPixel(h, w, l[1], l[2])
    ELSE IF a \in deco[1] THEN CLOSE_COLOR
    ELSE IF a \in deco[2] THEN BORDER_COLOR
    ELSE IF a \in deco[3] THEN TITLE_COLOR
    ELSE v)

\* the pointer, scaled to its top left pixel
draw_mouse_cursor(scr, mx, my) ==
  IF mx >= 0 /\ mx < SCREEN_W /\ my >= 0 /\ my < SCREEN_H
  THEN [scr EXCEPT ![my * SCREEN_W + mx] = WHITE] ELSE scr

\* the visible slots after the bubble sort: by z_order, equal z_order in
\* table order
RECURSIVE RenderOrder(_, _)
RenderOrder(ws, S) ==
  IF S = {} THEN <<>>
  ELSE Bind(MinOf({i \in S : \A j \in S : ws[i].z_order <= ws[j].z_order}),
            LAMBDA i : <<i>> \o RenderOrder(ws, S \ {i}))

\* index a of ctx->buffer after the windows order[1 .. k] have been drawn
\* over the desktop, back to front
RECURSIVE render_windows(_, _, _, _, _, _)
render_windows(h, ws, order, deco, k, a) ==
  IF k = 0 THEN Gradient(a \div SCREEN_W)
  ELSE draw_window(render_windows(h, ws, order, deco, k - 1, a), h,
                   ws[order[k]], deco[k], a)

compositor_render(st) ==
  Bind(RenderOrder(st.windows, VisibleSlots(st.windows)), LAMBDA order :
    Bind([k \in 1 .. Len(order) |->
            <<CloseStores(st.windows[order[k]]),
              BorderStores(st.windows[order[k]]),
              TitleStores(st.windows[order[k]])>>], LAMBDA deco :
      [st EXCEPT
         !.screen = draw_mouse_cursor(
                      [a \in DOMAIN st.screen |->
                         render_windows(st.heap, st.windows, order, deco,
                                        Len(order), a)],
                      st.mouse_x, st.mouse_y),
         !.fresh = TRUE]))

compositor_handle_click(st, button, state) ==
  IF state = 0 THEN [st EXCEPT !.dragging_window_id = -1]
  ELSE IF state # 1 THEN st
  ELSE IF SlotsAt(st.windows, st.mouse_x, st.mouse_y) = {} THEN st
  ELSE LET hit == TopSlot(st.windows,
                          SlotsAt(st.windows, st.mouse_x, st.mouse_y))
           top_z == MaxOf({0} \cup {st.windows[i].z_order :
                                      i \in {j \in DOMAIN st.windows :
                                                st.windows[j].id # 0}})
           s1 == [st EXCEPT !.windows[hit].z_order = top_z + 1]
           w == s1.windows[hit]
       IN compositor_render(
            IF close_allowed(w) /\ InCloseButton(w, st.mouse_x, st.mouse_y)
            THEN compositor_destroy_window(s1, w.id)
            ELSE IF st.mouse_y >= w.y - TITLE_BAR_HEIGHT /\ st.mouse_y < w.y
            THEN [s1 EXCEPT !.dragging_window_id = w.id,
                            !.drag_off_x = st.mouse_x - w.x,
                            !.drag_off_y = st.mouse_y - w.y]
            ELSE s1)

compositor_update_mouse(st, dx, dy, absolute) ==
  LET mx == IF absolute # 0 THEN dx ELSE st.mouse_x + dx
      my == IF absolute # 0 THEN dy ELSE st.mouse_y + dy
      found == {i \in DOMAIN st.windows :
                  st.windows[i].id = st.dragging_window_id}
      dragged == IF st.dragging_window_id # -1 /\ found # {}
                 THEN [st.windows EXCEPT
                         ![MinOf(found)].x = mx - st.drag_off_x,
                         ![MinOf(found)].y = Max(0, my - st.drag_off_y)]
                 ELSE st.windows
      moved == [st EXCEPT !.windows = dragged, !.mouse_x = mx, !.mouse_y = my,
                          !.fresh = FALSE]
  IN [(IF st.dragging_window_id # -1 THEN compositor_render(moved) ELSE moved)
        EXCEPT !.mouse_x = Min(Max(mx, 0), SCREEN_W - 1),
               !.mouse_y = Min(Max(my, 0), SCREEN_H - 1)]

\* the ownership test of compositor_draw_rect
owner_check(w, caller_pid) == ~(w.pid # caller_pid /\ caller_pid # 1)

\* compositor_draw_rect on the window table and the heap
compositor_draw_rect_buffer(st, window_id, x, y, w, h, color, caller_pid) ==
  LET found == {i \in DOMAIN st.windows :
                  st.windows[i].id = window_id /\ st.windows[i].buffer # NULL}
  IN IF found = {} THEN st
     ELSE LET win == st.windows[MinOf(found)]
              stores == {win.buffer + ToInt(ToInt(py * win.width) + px) :
                           px \in {p \in x .. (x + w - 1) :
                                     p >= 0 /\ p < win.width},
                           py \in {p \in y .. (y + h - 1) :
                                     p >= 0 /\ p < win.height}}
          IN IF ~owner_check(win, caller_pid) THEN st
             ELSE [st EXCEPT !.heap = [a \in DOMAIN st.heap |->
                                         IF a \in stores THEN color
                                         ELSE st.heap[a]]]

\* position, size of the windows the processes ask for: a small one, one
\* whose pixel count exceeds an int, and an empty one
WmRects ==
  {[x |-> 0, y |-> 2, w |-> 2, h |-> 1],
   [x |-> 1, y |-> 2, w |-> 3, h |-> 6],
   [x |-> 0, y |-> 2, w |-> 0, h |-> 1]}
\* a window left of the screen
WmRectsOff == {[x |-> -3, y |-> 2, w |-> 2, h |-> 1]}

\* syscall 210, for the rectangles R
WmCreate(R) ==
  \E r \in R, pid \in WmPids :
    /\ wm_ops < MaxWmOps
    /\ \E c \in {compositor_create_window(WmState, r.x, r.y, r.w, r.h, pid)} :
         /\ SetWm([c.st EXCEPT !.fresh = FALSE])
         /\ wm_last' = WmCall("create", pid, c.ret)
         /\ wm_ids' = IF c.ret = -1 THEN wm_ids ELSE wm_ids \cup {c.ret}
    /\ wm_ops' = wm_ops + 1
    /\ UNCHANGED <<sr_pc, sr_last, kb_buffer, kb_head, kb_tail>>
    /\ UNCHANGED nonWmVars

WmCreateWindow == WmCreate(WmRects)
WmCreateAnywhere == WmCreate(WmRects \cup WmRectsOff)

\* syscall 211: a rectangle of one or two pixels in the caller's colour
WmDrawRect ==
  \E pid \in WmPids, id \in 1 .. MAX_WINDOWS, x \in 0 .. 1, y \in 0 .. 1,
     w \in 1 .. 2 :
    /\ wm_ops < MaxWmOps
    /\ \E s \in {compositor_draw_rect_buffer(WmState, id, x, y, w, 1,
                                             ColorOf(pid), pid)} :
         SetWm([s EXCEPT !.masked = compositor_draw_rect(irq_masked),
                         !.fresh = FALSE])
    /\ wm_last' = WmCall("draw", pid, id)
    /\ wm_ops' = wm_ops + 1
    /\ UNCHANGED <<wm_ids, sr_pc, sr_last, kb_buffer, kb_head, kb_tail>>
    /\ UNCHANGED nonWmVars

\* a button event of the pointer device (virtio_input.c 206), and the
\* compositor_render that ends the interrupt handler
WmHandleClick ==
  \E state \in 0 .. 2 :
    /\ wm_ops < MaxWmOps
    /\ \E s \in {compositor_render(compositor_handle_click(WmState, 0, state))} :
         SetWm(s)
    /\ wm_last' = WmCall("click", 0, state)
    /\ wm_ops' = wm_ops + 1
    /\ UNCHANGED <<wm_ids, sr_pc, sr_last, kb_buffer, kb_head, kb_tail>>
    /\ UNCHANGED nonWmVars

\* a motion event of the pointer device (virtio_input.c 190-201), and the
\* compositor_render that ends the interrupt handler
WmUpdateMouse ==
  \E v \in -1 .. (SCREEN_W - 1) :
  \E m \in {<<v, 0, 0>>, <<0, v, 0>>, <<v, -1, 1>>, <<-1, v, 1>>} :
    /\ wm_ops < MaxWmOps
    /\ \E s \in {compositor_render(
                   compositor_update_mouse(WmState, m[1], m[2], m[3]))} :
         SetWm(s)
    /\ wm_last' = WmCall("mouse", 0, 0)
    /\ wm_ops' = wm_ops + 1
    /\ UNCHANGED <<wm_ids, sr_pc, sr_last, kb_buffer, kb_head, kb_tail>>
    /\ UNCHANGED nonWmVars

\* syscalls 201 and 212
WmRender ==
  \E pid \in WmPids :
    /\ wm_ops < MaxWmOps
    /\ \E s \in {compositor_render(WmState)} : SetWm(s)
    /\ wm_last' = WmCall("render", pid, 0)
    /\ wm_ops' = wm_ops + 1
    /\ UNCHANGED <<wm_ids, sr_pc, sr_last, kb_buffer, kb_head, kb_tail>>
    /\ UNCHANGED nonWmVars

InitWm ==
  /\ PmmOff
  /\ VmmOff
  /\ SchedOff
  /\ VqOff
  /\ CwOff
  /\ InOff
  /\ ElfOff
  /\ WmOff
  /\ TwOff
  /\ KmOff
  /\ PrOff

NextDraw ==
  \/ WmCreateWindow
  \/ WmDrawRect

SpecDraw == InitWm /\ [][NextDraw]_vars

NextClick ==
  \/ WmCreateWindow
  \/ WmHandleClick
  \/ WmUpdateMouse

SpecClick == InitWm /\ [][NextClick]_vars

NextRender ==
  \/ WmCreateAnywhere
  \/ WmDrawRect
  \/ WmHandleClick
  \/ WmUpdateMouse
  \/ WmRender

SpecRender == InitWm /\ [][NextRender]_vars


----------------------------------------------------------------------------
(* sys_read on the keyboard.  The processes are preempted by the timer at  *)
(* any point of the loop, so their steps interleave freely with each other *)
(* and with the button events of the pointer device.                       *)

\* characters the keyboard delivers
KeyChars == {65}

\* sys_read(0, buf, count) with count > 0 enters the loop
SrEnter ==
  \E p \in WmPids :
    /\ sr_pc[p] = "user"
    /\ sr_pc' = [sr_pc EXCEPT ![p] = "check"]
    /\ UNCHANGED <<windows, window_count, next_window_id, mouse_x, mouse_y,
                   dragging_window_id, drag_off_x, drag_off_y, heap, heap_ptr,
                   free_list, wm_last, wm_ops, wm_ids, screen, screen_fresh, sr_last,
                   irq_masked, kb_buffer,
                   kb_head, kb_tail>>
    /\ UNCHANGED nonWmVars

\* the focus check (syscall.c 238-243): a reader without focus waits for an
\* event and repeats the check
SrCheckFocusOf(p) ==
    /\ sr_pc[p] = "check"
    /\ \E active_pid \in {compositor_get_focus_pid(windows)} :
         sr_pc' = [sr_pc EXCEPT
                     ![p] = IF active_pid # -1 /\ p # active_pid
                            THEN "check" ELSE "dequeue"]
    /\ irq_masked' = local_irq_enable(local_irq_disable(irq_masked))
    /\ UNCHANGED <<windows, window_count, next_window_id, mouse_x, mouse_y,
                   dragging_window_id, drag_off_x, drag_off_y, heap, heap_ptr,
                   free_list, wm_last, wm_ops, wm_ids, screen, screen_fresh, sr_last,
                   kb_buffer, kb_head,
                   kb_tail>>
    /\ UNCHANGED nonWmVars

\* keyboard_read_char_nonblock and the return (syscall.c 246-259): the tail
\* character is delivered, or the reader waits and starts over
SrDequeueOf(p) ==
    /\ sr_pc[p] = "dequeue"
    /\ IF kb_head = kb_tail
         THEN /\ sr_pc' = [sr_pc EXCEPT ![p] = "check"]
              /\ UNCHANGED <<kb_tail, sr_last>>
         ELSE /\ kb_tail' = (kb_tail + 1) % KB_BUFFER_SIZE
              /\ sr_last' = [pid |-> p,
                             focus |-> compositor_get_focus_pid(windows),
                             c |-> kb_buffer[kb_tail]]
              /\ sr_pc' = [sr_pc EXCEPT ![p] = "user"]
    /\ UNCHANGED <<windows, window_count, next_window_id, mouse_x, mouse_y,
                   dragging_window_id, drag_off_x, drag_off_y, heap, heap_ptr,
                   free_list, wm_last, wm_ops, wm_ids, screen, screen_fresh, irq_masked,
                   kb_buffer, kb_head>>
    /\ UNCHANGED nonWmVars

SrCheckFocus == \E p \in WmPids : SrCheckFocusOf(p)

SrDequeue == \E p \in WmPids : SrDequeueOf(p)

\* a key press reaches the keyboard ring
SrKey ==
  \E c \in KeyChars :
  \E r \in {keyboard_process_key(kb_buffer, kb_head, kb_tail, c)} :
    /\ wm_ops < MaxWmOps
    /\ r.kept = 1
    /\ kb_buffer' = r.buffer
    /\ kb_head' = r.head
    /\ wm_ops' = wm_ops + 1
    /\ UNCHANGED <<windows, window_count, next_window_id, mouse_x, mouse_y,
                   dragging_window_id, drag_off_x, drag_off_y, heap, heap_ptr,
                   free_list, wm_last, wm_ids, screen, screen_fresh, sr_pc, sr_last,
                   irq_masked, kb_tail>>
    /\ UNCHANGED nonWmVars

NextRead ==
  \/ WmCreateWindow
  \/ WmHandleClick
  \/ SrEnter
  \/ SrCheckFocus
  \/ SrDequeue
  \/ SrKey

SpecRead == InitWm /\ [][NextRead]_vars

\* windows of one size
WmCreateOne == WmCreate({[x |-> 0, y |-> 2, w |-> 2, h |-> 1]})

NextReadFair ==
  \/ WmCreateOne
  \/ SrEnter
  \/ SrCheckFocus
  \/ SrDequeue
  \/ SrKey

\* The timer keeps ticking and schedule() takes the processes in turn, so a
\* process inside the loop of sys_read goes on with it: wfe returns at the
\* latest with the next tick.
SpecReadFair ==
  /\ InitWm
  /\ [][NextReadFair]_vars
  /\ \A p \in WmPids : WF_vars(SrCheckFocusOf(p) \/ SrDequeueOf(p))

\* C30: when the process that holds the focus is inside sys_read and a
\* character is in the keyboard ring, the read returns with a character
\* unless the process loses the focus; it does not wait forever.
C30_ReadEventuallyReturns ==
  \A p \in WmPids :
    (/\ sr_pc[p] # "user"
     /\ compositor_get_focus_pid(windows) = p
     /\ kb_head # kb_tail)
      ~> (\/ sr_pc[p] = "user" /\ sr_last.pid = p
          \/ compositor_get_focus_pid(windows) # p)

\* C11: a character sys_read delivers goes to the process that owns the
\* top-most visible window at the moment the character is dequeued, or to
\* any process when no window is visible.
C11_ReadOnlyByFocus ==
  sr_last.pid # 0 => sr_last.focus \in {-1, sr_last.pid}

\* C13: compositor_create_window returns with interrupts unmasked on every
\* exit path: success, window table full, no free slot, and failure to
\* allocate the pixel buffer.
C13_CreateReturnsUnmasked ==
  wm_last.op = "create" => ~irq_masked

\* cells of the payload of the block at buffer
BufferCells(st, buffer) ==
  IF buffer = NULL THEN {}
  ELSE {a \in DOMAIN st.heap :
          a >= buffer /\ a < buffer - KHEADER + st.heap[buffer - KHEADER + 1]}

\* the call drew on a window that exists and whose owner check it passes
DrawAllowed(call) ==
  \E i \in DOMAIN windows :
    /\ windows[i].id = call.id
    /\ windows[i].buffer # NULL
    /\ (windows[i].pid = call.pid \/ call.pid = 1)

\* C12: compositor_draw_rect changes the pixel buffer of the window only if
\* the caller is its owner or process 1, and when the check fails no pixel of
\* any window changes; a call of a process other than 1 on a window of its
\* own changes no pixel in the buffer of a window of another process.
C12_DrawKeepsOthersPixels ==
  [][(wm_last'.op = "draw" /\ wm_ops' # wm_ops) =>
       \A i \in DOMAIN windows :
         (/\ windows[i].id # 0
          /\ \/ ~DrawAllowed(wm_last')
             \/ /\ wm_last'.pid # 1
                /\ windows[i].pid # wm_last'.pid
                /\ \E j \in DOMAIN windows :
                      windows[j].id = wm_last'.id
                        /\ windows[j].pid = wm_last'.pid)
           => \A a \in BufferCells(WmState, windows[i].buffer) :
                 heap'[a] = heap[a]]_vars

\* C14: a window is protected exactly if its owner is process 2; no mouse
\* motion and no button event destroys a protected window, and a window that
\* a button event destroys was, at the press, a top-most visible window
\* among those holding the mouse, with the mouse inside its close-button box.
C14_ProtectedNeverDestroyed ==
  /\ [](\A i \in DOMAIN windows :
          windows[i].id # 0 => (windows[i].protected = 1 <=> windows[i].pid = 2))
  /\ [][(wm_last'.op \in {"click", "mouse"} /\ wm_ops' # wm_ops) =>
          \A i \in DOMAIN windows :
            (windows[i].id # 0 /\ windows'[i].id # windows[i].id) =>
               /\ windows[i].protected = 0
               /\ wm_last' = WmCall("click", 0, 1)
               /\ i \in SlotsAt(windows, mouse_x, mouse_y)
               /\ \A j \in SlotsAt(windows, mouse_x, mouse_y) :
                     windows[j].z_order <= windows[i].z_order
               /\ InCloseButton(windows[i], mouse_x, mouse_y)]_vars

\* a press on the close-button position of a protected window that is the
\* top-most of two windows, and both windows are still there
C14_Witness ==
  /\ wm_last = WmCall("click", 0, 1)
  /\ window_count = 2
  /\ \E i \in DOMAIN windows :
       /\ windows[i].protected = 1
       /\ i \in SlotsAt(windows, mouse_x, mouse_y)
       /\ InCloseButton(windows[i], mouse_x, mouse_y)
       /\ \A j \in DOMAIN windows : windows[j].z_order <= windows[i].z_order

UsedSlots == {i \in DOMAIN windows : windows[i].id # 0}

\* C24: every successful compositor_create_window returns a positive id
\* greater than every id returned before, so no id is used again after its
\* window was destroyed; window_count is the number of window records with a
\* non-zero id and never exceeds MAX_WINDOWS.
C24_IdsNeverReused ==
  /\ [][(wm_last'.op = "create" /\ wm_ops' # wm_ops /\ wm_last'.id # -1) =>
          /\ wm_last'.id > 0
          /\ \A k \in wm_ids : wm_last'.id > k
          /\ \E i \in DOMAIN windows :
                windows[i].id = 0 /\ windows'[i].id = wm_last'.id]_vars
  /\ [](\A i, j \in UsedSlots : windows[i].id = windows[j].id => i = j)
  /\ [](window_count = Cardinality(UsedSlots))
  /\ [](window_count <= MAX_WINDOWS)

\* the first window was destroyed and a second one was created in its slot
C24_Witness ==
  /\ wm_last.op = "create"
  /\ wm_last.id = 2
  /\ wm_ids = {1, 2}
  /\ window_count = 1
  /\ windows[0].id = 2

----------------------------------------------------------------------------
(* The terminal emulator: compositor_window_write and handle_sgr *)

\* bytes of a write beyond which only the example sequence continues
MaxBytes == 5

Digits == <<"0", "1", "2", "3", "4", "5", "6", "7", "8", "9">>
IsDigit(c) == \E i \in 1 .. 10 : Digits[i] = c
DigitVal(c) == (CHOOSE i \in 1 .. 10 : Digits[i] = c) - 1
IsLetter(c) == c \in {"m", "J", "H", "O", "K"}
\* c >= 32 && c < 127
IsPrintable(c) == IsLetter(c) \/ IsDigit(c) \/ c \in {"[", ";"}

\* the two palettes of handle_sgr
STD_COLORS == <<0, 12255232, 47872, 12303104, 187, 12255419, 48059, 12303291>>
BRIGHT_COLORS == <<5592405, 16733525, 5635925, 16777045, 5592575, 16733695,
                   5636095, 16777215>>

\* the loop of handle_sgr over escape_buf[i .. escape_len - 1]
RECURSIVE sgr_val(_, _, _, _)
sgr_val(buf, len, i, val) ==
  IF i >= len THEN val
  ELSE sgr_val(buf, len, i + 1,
               IF IsDigit(buf[i]) THEN val * 10 + DigitVal(buf[i]) ELSE val)

handle_sgr(t) ==
  IF t.escape_len = 0 THEN [t EXCEPT !.fg_color = WHITE]
  ELSE Bind(sgr_val(t.escape_buf, t.escape_len, 0, 0), LAMBDA val :
         IF val = 0 THEN [t EXCEPT !.fg_color = WHITE]
         ELSE IF val >= 30 /\ val <= 37
         THEN [t EXCEPT !.fg_color = STD_COLORS[val - 30 + 1]]
         ELSE IF val >= 90 /\ val <= 97
         THEN [t EXCEPT !.fg_color = BRIGHT_COLORS[val - 90 + 1]]
         ELSE t)

\* the wrap of the cursor and the scroll by one line after every byte
term_wrap(t, cols, rows) ==
  Bind(IF t.cursor_x >= cols
       THEN [t EXCEPT !.cursor_x = 0, !.cursor_y = @ + 1] ELSE t, LAMBDA a :
    IF a.cursor_y >= rows
    THEN [a EXCEPT !.cells = [x \in 0 .. (cols - 1) |-> [y \in 0 .. (rows - 1) |->
                                IF y < rows - 1 THEN a.cells[x][y + 1]
                                ELSE BlankCell]],
                   !.cursor_y = rows - 1, !.scroll = TRUE]
    ELSE [a EXCEPT !.scroll = FALSE])

\* the body of the loop of compositor_window_write for the byte c, with
\* every byte after ESC taken for '['
window_write_char_anycsi(t, c, cols, rows) ==
  term_wrap(
    IF t.escape_state = 0
    THEN IF c = "ESC"
         THEN [t EXCEPT !.escape_state = 1, !.escape_len = 0, !.ev = "esc"]
         ELSE IF c = "LF"
         THEN [t EXCEPT !.cursor_x = 0, !.cursor_y = @ + 1, !.ev = "ctl"]
         ELSE IF IsPrintable(c)
         THEN [t EXCEPT !.cells[t.cursor_x][t.cursor_y] =
                           [ch |-> c, color |-> t.fg_color],
                        !.cursor_x = @ + 1, !.ev = "glyph"]
         ELSE [t EXCEPT !.ev = "none"]
    ELSE IF t.escape_state = 1
    THEN [t EXCEPT !.escape_state = 2, !.ev = "esc"]
    ELSE IF IsLetter(c)
    THEN [(IF c = "m" THEN handle_sgr(t)
           ELSE IF c = "J"
           THEN [t EXCEPT !.cells = [x \in 0 .. (cols - 1) |->
                                       [y \in 0 .. (rows - 1) |-> BlankCell]],
                          !.cursor_x = 0, !.cursor_y = 0]
           ELSE IF c = "H" THEN [t EXCEPT !.cursor_x = 0, !.cursor_y = 0]
           ELSE t)
          EXCEPT !.escape_state = 0, !.ev = "dispatch"]
    ELSE IF t.escape_len < ESC_BUF_SIZE - 1
    THEN [t EXCEPT !.escape_buf[t.escape_len] = c, !.escape_len = @ + 1,
                   !.ev = "param"]
    ELSE [t EXCEPT !.escape_state = 0, !.ev = "abort"],
    cols, rows)

\* the body of the loop of compositor_window_write for the byte c; ev records
\* which branch ran
window_write_char(t, c, cols, rows) ==
  term_wrap(
    IF t.escape_state = 0
    THEN IF c = "ESC"
         THEN [t EXCEPT !.escape_state = 1, !.escape_len = 0, !.ev = "esc"]
         ELSE IF c = "LF"
         THEN [t EXCEPT !.cursor_x = 0, !.cursor_y = @ + 1, !.ev = "ctl"]
         ELSE IF IsPrintable(c)
         THEN [t EXCEPT !.cells[t.cursor_x][t.cursor_y] =
                           [ch |-> c, color |-> t.fg_color],
                        !.cursor_x = @ + 1, !.ev = "glyph"]
         ELSE [t EXCEPT !.ev = "none"]
    ELSE IF t.escape_state = 1
    THEN [t EXCEPT !.escape_state = IF c = "[" THEN 2 ELSE 0, !.ev = "esc"]
    ELSE IF IsLetter(c)
    THEN [(IF c = "m" THEN handle_sgr(t)
           ELSE IF c = "J"
           THEN [t EXCEPT !.cells = [x \in 0 .. (cols - 1) |->
                                       [y \in 0 .. (rows - 1) |-> BlankCell]],
                          !.cursor_x = 0, !.cursor_y = 0]
           ELSE IF c = "H" THEN [t EXCEPT !.cursor_x = 0, !.cursor_y = 0]
           ELSE t)
          EXCEPT !.escape_state = 0, !.ev = "dispatch"]
    ELSE IF t.escape_len < ESC_BUF_SIZE - 1
    THEN [t EXCEPT !.escape_buf[t.escape_len] = c, !.escape_len = @ + 1,
                   !.ev = "param"]
    ELSE [t EXCEPT !.escape_state = 0, !.ev = "abort"],
    cols, rows)

\* the bytes a model write is made of, and the example of the specification:
\* ESC [ 3 2 m O K ESC [ 0 m newline
TwAlphabet == {"ESC", "[", "0", "3", "9", ";", "m", "H", "O"}
SgrExample == <<"ESC", "[", "3", "2", "m", "O", "K", "ESC", "[", "0", "m", "LF">>
TwSizes == {<<6, 4>>, <<4, 4>>}

\* the next byte is one of the alphabet, or continues the example
TwInput(c) ==
  \/ tw_n < MaxBytes /\ c \in TwAlphabet
  \/ tw_ex = tw_n /\ tw_n < Len(SgrExample) /\ c = SgrExample[tw_n + 1]

\* what compositor_render leaves in a cell of the buffer it draws to
ScreenCell == [ch |-> "screen", color |-> 0]

\* one round of the loop of compositor_window_write: a glyph is cleared by
\* compositor_draw_rect, which returns with IRQs unmasked
TwWriteChar ==
  \E c \in TwAlphabet \cup {"2", "K", "LF"} :
    /\ TwInput(c)
    /\ tw_term' = window_write_char(tw_term, c, TwCols, TwRows)
    /\ tw_last' = c
    /\ tw_n' = tw_n + 1
    /\ tw_ex' = IF tw_ex = tw_n /\ tw_n < Len(SgrExample) /\ c = SgrExample[tw_n + 1]
                THEN tw_n + 1 ELSE -1
    /\ tw_irq' = (tw_irq \/ (tw_term.escape_state = 0 /\ IsPrintable(c)))
    /\ UNCHANGED tw_size
    /\ UNCHANGED nonTwVars

\* an input IRQ taken inside the write: compositor_handle_click calls
\* compositor_render, which draws the screen into g_ctx.buffer, the window's
\* buffer at this point
TwIrqRender ==
  /\ tw_irq
  /\ tw_term' = [tw_term EXCEPT !.cells =
                   [x \in DOMAIN tw_term.cells |->
                     [y \in DOMAIN tw_term.cells[x] |-> ScreenCell]]]
  /\ UNCHANGED <<tw_size, tw_last, tw_n, tw_ex, tw_irq>>
  /\ UNCHANGED nonTwVars

InitTw ==
  /\ \E s \in TwSizes :
       tw_size = s /\ tw_term = FreshTerm(s[1] \div CHAR_W, s[2] \div CHAR_H)
  /\ tw_last = ""
  /\ tw_n = 0
  /\ tw_ex = 0
  /\ tw_irq = FALSE
  /\ PmmOff
  /\ VmmOff
  /\ SchedOff
  /\ VqOff
  /\ CwOff
  /\ InOff
  /\ ElfOff
  /\ WmOff
  /\ KmOff
  /\ PrOff

NextTw == TwWriteChar \/ TwIrqRender

SpecTw == InitTw /\ [][NextTw]_vars

\* the parameter bytes stored so far
Params(t) == [i \in 1 .. t.escape_len |-> t.escape_buf[i - 1]]

RECURSIVE DecVal(_)
DecVal(ds) ==
  IF ds = <<>> THEN 0
  ELSE DecVal(SubSeq(ds, 1, Len(ds) - 1)) * 10 + DigitVal(ds[Len(ds)])

GREEN == 47872

\* C23: ESC [ n m sets the foreground colour to entry n - 30 of the standard
\* palette for n in 30..37, to entry n - 90 of the bright palette for n in
\* 90..97 and to white for n = 0 or no parameter; a glyph is drawn in the
\* current foreground colour, which only an SGR sequence changes; and after
\* ESC [ 3 2 m O K ESC [ 0 m newline on a fresh window the first row shows O
\* and K in green 0xFF00BB00 and the cursor is at column 0 of the next row.
C23_SgrSelectsColour ==
  /\ [][tw_n' # tw_n =>
          LET c == tw_last'
              t == tw_term
              u == tw_term'
              ps == Params(t)
              scrolled == t.cursor_x + 1 >= TwCols /\ t.cursor_y + 1 >= TwRows
          IN  /\ (t.escape_state = 2 /\ c = "m" /\ \A i \in 1 .. Len(ps) : IsDigit(ps[i])) =>
                   Bind(DecVal(ps), LAMBDA n :
                     /\ (n >= 30 /\ n <= 37) => u.fg_color = STD_COLORS[n - 30 + 1]
                     /\ (n >= 90 /\ n <= 97) => u.fg_color = BRIGHT_COLORS[n - 90 + 1]
                     /\ n = 0 => u.fg_color = WHITE)
              /\ u.fg_color # t.fg_color => (t.escape_state = 2 /\ c = "m")
              /\ (t.escape_state = 0 /\ IsPrintable(c)) =>
                   IF scrolled
                   THEN t.cursor_y >= 1 =>
                          u.cells[t.cursor_x][t.cursor_y - 1] = [ch |-> c, color |-> t.fg_color]
                   ELSE u.cells[t.cursor_x][t.cursor_y] = [ch |-> c, color |-> t.fg_color]]_vars
  /\ [](tw_ex = Len(SgrExample) =>
          /\ tw_term.cells[0][0] = [ch |-> "O", color |-> GREEN]
          /\ tw_term.cells[1][0] = [ch |-> "K", color |-> GREEN]
          /\ tw_term.cursor_x = 0
          /\ tw_term.cursor_y = 1)

\* (x, y) lies in the client area of window w
InClient(w, x, y) ==
  x >= w.x /\ x < w.x + w.width /\ y >= w.y /\ y < w.y + w.height

\* (x, y) lies in the decorations of window w: the title bar above the client
\* area, the frame one pixel wide around title bar and client area, and the
\* close button
InChrome(w, x, y) ==
  /\ x >= w.x - 1
  /\ x <= w.x + w.width
  /\ y >= w.y - TITLE_BAR_HEIGHT - 1
  /\ y <= w.y + w.height
  /\ ~InClient(w, x, y)

\* C21: after a compositor_render, every pixel of the frame buffer that
\* neither the pointer nor the decorations of a visible window cover shows
\* the pixel, at the local coordinate, of a visible window whose client area
\* holds it and whose z_order no other such window exceeds, or the desktop
\* gradient of its row when no visible window holds it.
C21_RenderShowsTopWindow ==
  screen_fresh =>
    \A x \in 0 .. (SCREEN_W - 1), y \in 0 .. (SCREEN_H - 1) :
      (/\ ~(x = mouse_x /\ y = mouse_y)
       /\ \A i \in VisibleSlots(windows) : ~InChrome(windows[i], x, y)) =>
        LET over == {i \in VisibleSlots(windows) : InClient(windows[i], x, y)}
        IN  IF over = {} THEN screen[y * SCREEN_W + x] = Gradient(y)
            ELSE \E i \in over :
                   /\ \A j \in over : windows[j].z_order <= windows[i].z_order
                   /\ screen[y * SCREEN_W + x] =
                        WinPixel(heap, windows[i], x - windows[i].x,
                                 y - windows[i].y)

----------------------------------------------------------------------------
(* SGR sequences with several parameters: the parameter bytes are in       *)
(* escape_buf (32 bytes in the code, so four always fit) and the final     *)
(* byte m is written.                                                      *)

\* parameter bytes collected before the final byte
MaxParams == 4
SgrBytes == {"0", "1", "3", "6", ";"}
RED == 12255232
CYAN == 48059

\* parameter buffers of n bytes
SgrBufs(n) == [0 .. (n - 1) -> SgrBytes]

InitSgr ==
  /\ \E n \in 1 .. MaxParams : \E b \in SgrBufs(n) :
       tw_term = [FreshTerm(3, 2) EXCEPT !.escape_state = 2, !.escape_buf = b,
                                         !.escape_len = n, !.fg_color = RED]
  /\ tw_size = <<6, 4>>
  /\ tw_last = ""
  /\ tw_n = 0
  /\ tw_ex = 0
  /\ tw_irq = FALSE
  /\ PmmOff
  /\ VmmOff
  /\ SchedOff
  /\ VqOff
  /\ CwOff
  /\ InOff
  /\ ElfOff
  /\ WmOff
  /\ KmOff
  /\ PrOff

\* compositor_window_write reads the final byte of the sequence
SgrFinal ==
  /\ tw_term.escape_state = 2
  /\ tw_term' = window_write_char(tw_term, "m", TwCols, TwRows)
  /\ tw_last' = "m"
  /\ tw_n' = tw_n + 1
  /\ UNCHANGED <<tw_size, tw_ex, tw_irq>>
  /\ UNCHANGED nonTwVars

NextSgr == SgrFinal

SpecSgr == InitSgr /\ [][NextSgr]_vars

\* the colour after the single code val
SgrCode(val, fg) ==
  IF val = 0 THEN WHITE
  ELSE IF val >= 30 /\ val <= 37 THEN STD_COLORS[val - 30 + 1]
  ELSE IF val >= 90 /\ val <= 97 THEN BRIGHT_COLORS[val - 90 + 1]
  ELSE fg

\* the colour after the codes of buf[i ..], one code per parameter, in order
RECURSIVE SgrEach(_, _, _, _, _)
SgrEach(buf, len, i, val, fg) ==
  IF i >= len THEN SgrCode(val, fg)
  ELSE IF buf[i] = ";" THEN SgrEach(buf, len, i + 1, 0, SgrCode(val, fg))
  ELSE SgrEach(buf, len, i + 1, val * 10 + DigitVal(buf[i]), fg)

\* every parameter of the buffer has a digit
NoEmptyParam(buf, len) ==
  /\ buf[0] # ";"
  /\ buf[len - 1] # ";"
  /\ \A i \in 0 .. (len - 2) : ~(buf[i] = ";" /\ buf[i + 1] = ";")

\* C39: an SGR sequence with several parameters separated by semicolons
\* applies each parameter as its own code, in order; ESC[1;36m leaves the
\* foreground cyan and ESC[0;32m leaves it green.
C39_SgrEachParameter ==
  [][(tw_last' = "m" /\ NoEmptyParam(tw_term.escape_buf, tw_term.escape_len)) =>
       tw_term'.fg_color =
         SgrEach(tw_term.escape_buf, tw_term.escape_len, 0, 0,
                 tw_term.fg_color)]_vars

----------------------------------------------------------------------------
(* The scroll of compositor_window_write on windows of any size.  The      *)
(* pixel buffer of a window holds width * height pixels, numbered from 0.  *)

\* windows of two rows, of less than one row, of less than one column, and
\* with a remainder in both directions
TwSizesAny == {<<4, 4>>, <<4, 1>>, <<1, 4>>, <<5, 5>>}

\* the pixels the scroll reads or writes: memmove(buffer, buffer + line_size,
\* n * 4) with n = width * (height - char_h) converted to size_t, and the loop
\* that clears the last line
scroll_pixels(width, height) ==
  LET line_size == width * CHAR_H
      n == (width * (height - CHAR_H)) % SizeMod
  IN  (0 .. (n - 1)) \cup (line_size .. (line_size + n - 1))
        \cup ((width * (height - CHAR_H)) .. (width * height - 1))

InitScroll ==
  /\ \E s \in TwSizesAny :
       tw_size = s /\ tw_term = FreshTerm(s[1] \div CHAR_W, s[2] \div CHAR_H)
  /\ tw_last = ""
  /\ tw_n = 0
  /\ tw_ex = 0
  /\ tw_irq = FALSE
  /\ PmmOff
  /\ VmmOff
  /\ SchedOff
  /\ VqOff
  /\ CwOff
  /\ InOff
  /\ ElfOff
  /\ WmOff
  /\ KmOff
  /\ PrOff

NextScroll == TwWriteChar

SpecScroll == InitScroll /\ [][NextScroll]_vars

\* the cells after the byte tw_last' was handled and before the scroll
BeforeScroll(x, y) ==
  IF tw_term'.ev = "glyph" /\ x = tw_term.cursor_x /\ y = tw_term.cursor_y
  THEN [ch |-> tw_last', color |-> tw_term.fg_color]
  ELSE tw_term.cells[x][y]

\* C37: after every byte the cursor is inside the cols x rows grid; a scroll
\* moves the contents up by one text row, fills the last row with the
\* background and leaves the cursor on the last row; and the scroll touches
\* no pixel outside the width * height buffer, whatever the window's size.
C37_CursorAndScrollInBounds ==
  [][tw_n' # tw_n =>
       /\ tw_term'.cursor_x >= 0 /\ tw_term'.cursor_x < TwCols
       /\ tw_term'.cursor_y >= 0 /\ tw_term'.cursor_y < TwRows
       /\ tw_term'.scroll =>
            /\ tw_term'.cursor_y = TwRows - 1
            /\ \A x \in 0 .. (TwCols - 1) :
                 /\ tw_term'.cells[x][TwRows - 1] = BlankCell
                 /\ \A y \in 0 .. (TwRows - 2) :
                      tw_term'.cells[x][y] = BeforeScroll(x, y + 1)
            /\ scroll_pixels(tw_size[1], tw_size[2])
                 \subseteq 0 .. (tw_size[1] * tw_size[2] - 1)]_vars

----------------------------------------------------------------------------
\* the slot compositor_render draws last among the slots S
RenderTop(ws, S) == RenderOrder(ws, S)[Cardinality(S)]

\* C34: visible windows have pairwise different z_order, so the window that
\* has the focus, the window a press selects at a point and the window that
\* is drawn on top at that point are the same.
C34_DistinctZOrders ==
  /\ \A i, j \in VisibleSlots(windows) :
       i # j => windows[i].z_order # windows[j].z_order
  /\ \A x \in 0 .. (SCREEN_W - 1) : \A y \in 0 .. (SCREEN_H - 1) :
       SlotsAt(windows, x, y) # {} =>
         TopSlot(windows, SlotsAt(windows, x, y))
           = RenderTop(windows, SlotsAt(windows, x, y))
  /\ VisibleSlots(windows) # {} =>
       compositor_get_focus_pid(windows)
         = windows[RenderTop(windows, VisibleSlots(windows))].pid

----------------------------------------------------------------------------
\* C35: a motion event during a drag leaves the dragged window with some
\* pixel of its title bar strip on the screen, and every motion event leaves
\* the cursor on the screen.
C35_DragClampsWindowAndCursor ==
  [][(wm_last'.op = "mouse" /\ wm_ops' # wm_ops) =>
       /\ mouse_x' \in 0 .. (SCREEN_W - 1)
       /\ mouse_y' \in 0 .. (SCREEN_H - 1)
       /\ \A i \in DOMAIN windows :
            (/\ dragging_window_id # -1
             /\ windows[i].id = dragging_window_id) =>
              /\ windows'[i].y > 0
              /\ windows'[i].y - TITLE_BAR_HEIGHT < SCREEN_H
              /\ windows'[i].x < SCREEN_W
              /\ windows'[i].x + windows'[i].width > 0]_vars

\* the cursor part of C35 alone
CursorOnScreen ==
  /\ mouse_x \in 0 .. (SCREEN_W - 1)
  /\ mouse_y \in 0 .. (SCREEN_H - 1)

\* an absolute motion event of the pointer device: ABS_X (code 0) passes -1
\* as dy, ABS_Y (code 1) passes -1 as dx; then the compositor_render that
\* ends the interrupt handler
WmAbsMotion ==
  \E code \in {0, 1} : \E value \in 0 .. (SCREEN_W - 1) :
    /\ wm_ops < MaxWmOps
    /\ \E s \in {compositor_render(
                   compositor_update_mouse(WmState,
                     IF code = 0 THEN value ELSE -1,
                     IF code = 0 THEN -1 ELSE value, 1))} :
         SetWm(s)
    /\ wm_last' = [op |-> "abs", pid |-> 0, id |-> code]
    /\ wm_ops' = wm_ops + 1
    /\ UNCHANGED <<wm_ids, sr_pc, sr_last, kb_buffer, kb_head, kb_tail>>
    /\ UNCHANGED nonWmVars

NextAbs ==
  \/ WmCreateWindow
  \/ WmHandleClick
  \/ WmAbsMotion

SpecAbs == InitWm /\ [][NextAbs]_vars

\* C36: an ABS_X event changes only the horizontal coordinate of the cursor
\* and of a dragged window, an ABS_Y event only the vertical one.
C36_AbsMotionOneAxis ==
  [][(wm_last'.op = "abs" /\ wm_ops' # wm_ops) =>
       /\ wm_last'.id = 0 =>
            /\ mouse_y' = mouse_y
            /\ \A i \in DOMAIN windows : windows'[i].y = windows[i].y
       /\ wm_last'.id = 1 =>
            /\ mouse_x' = mouse_x
            /\ \A i \in DOMAIN windows : windows'[i].x = windows[i].x]_vars

----------------------------------------------------------------------------
(* The kernel heap under any sequence of calls.  A caller passes to kfree  *)
(* a pointer it holds or a pointer it freed before, and to krealloc a      *)
(* pointer it holds or NULL.                                                *)

\* calls per behaviour
MaxKmOps == 4
\* sizes requested: none, less than and more than one unit of alignment, and
\* a size within KALIGN of the greatest size_t
KmSizes == {0, 1, 3, SizeMod - 1}

nonHeapVars == <<pmmVars, vmmVars, schedVars, vqVars, cwRest, inRest, elfVars,
                 twVars, prVars, wm_last, wm_ops, wm_ids, sr_pc, sr_last, kb_buffer,
                 kb_head, kb_tail>>

\* memcpy(dst, src, n) inside the heap
memcpy(h, dst, src, n) ==
  [a \in DOMAIN h |->
     IF a >= dst /\ a < dst + n /\ (a - dst + src) \in DOMAIN h
     THEN h[a - dst + src] ELSE h[a]]

krealloc(st, ptr, new_size) ==
  IF ptr = NULL THEN kmalloc(st, new_size)
  ELSE IF new_size = 0 THEN [st |-> kfree(st, ptr), ret |-> NULL]
  ELSE LET old_size == (st.heap[ptr - KHEADER + 1] - KHEADER) % SizeMod
           r == kmalloc(st, new_size)
       IN IF r.ret # NULL
          THEN [st |-> kfree([r.st EXCEPT
                                !.heap = memcpy(r.st.heap, r.ret, ptr,
                                                Min(old_size, new_size))],
                             ptr),
                ret |-> r.ret]
          ELSE r

\* the caller's blocks after it received ret for a request of size bytes
KmTake(live, ret, size) ==
  IF ret = NULL THEN live
  ELSE [p \in DOMAIN live \cup {ret} |-> IF p = ret THEN size ELSE live[p]]

\* the caller's blocks after it gave up ptr
KmDrop(live, ptr) == [p \in DOMAIN live \ {ptr} |-> live[p]]

KmCall(op, ptr, size, ret) ==
  [op |-> op, ptr |-> ptr, size |-> size, ret |-> ret, n |-> km_last.n + 1]

\* pointers the caller received at some time
KmPtrs ==
  DOMAIN km_live \cup {free_list[k] + KHEADER : k \in DOMAIN free_list}

KmAlloc ==
  \E size \in KmSizes :
    /\ km_last.n < MaxKmOps
    /\ \E r \in {kmalloc(WmState, size)} :
         /\ SetWm(r.st)
         /\ km_live' = KmTake(km_live, r.ret, size)
         /\ km_last' = KmCall("kmalloc", NULL, size, r.ret)
    /\ UNCHANGED nonHeapVars

KmFree ==
  \E ptr \in KmPtrs \cup {NULL} :
    /\ km_last.n < MaxKmOps
    /\ \E s \in {kfree(WmState, ptr)} : SetWm(s)
    /\ km_live' = KmDrop(km_live, ptr)
    /\ km_last' = KmCall("kfree", ptr, 0, NULL)
    /\ UNCHANGED nonHeapVars

KmRealloc ==
  \E ptr \in DOMAIN km_live \cup {NULL} : \E size \in KmSizes :
    /\ km_last.n < MaxKmOps
    /\ \E r \in {krealloc(WmState, ptr, size)} :
         /\ SetWm(r.st)
         /\ km_live' = IF size = 0 \/ r.ret # NULL
                       THEN KmTake(KmDrop(km_live, ptr), r.ret, size)
                       ELSE km_live
         /\ km_last' = KmCall("krealloc", ptr, size, r.ret)
    /\ UNCHANGED nonHeapVars

NextKm ==
  \/ KmAlloc
  \/ KmFree
  \/ KmRealloc

SpecKm == InitWm /\ [][NextKm]_vars

\* the payload of the block at ptr: block->size less the header
KmPayload(ptr) == ptr .. (ptr + heap[ptr - KHEADER + 1] - KHEADER - 1)

KmFreeBlocks == {free_list[k] : k \in DOMAIN free_list}

\* C38: the payloads of the blocks handed out are pairwise disjoint, inside
\* the heap and at least as large as requested; no block is handed out and
\* on the free list, or on the free list twice; and kfree of a pointer that
\* is on the free list changes nothing.
C38_HeapBlocksDisjoint ==
  /\ [](/\ \A p, q \in DOMAIN km_live :
             p # q => KmPayload(p) \cap KmPayload(q) = {}
        /\ \A p \in DOMAIN km_live :
             /\ p - KHEADER >= heap_base
             /\ KmPayload(p) \subseteq heap_base .. (heap_end - 1)
             /\ Cardinality(KmPayload(p)) >= km_live[p]
             /\ (p - KHEADER) \notin KmFreeBlocks
        /\ \A j, k \in DOMAIN free_list :
             j # k => free_list[j] # free_list[k])
  /\ [][(/\ km_last'.op = "kfree"
         /\ km_last'.n # km_last.n
         /\ (km_last'.ptr - KHEADER) \in KmFreeBlocks) =>
          UNCHANGED <<heap, heap_ptr, free_list>>]_vars

----------------------------------------------------------------------------
(* The frame allocator called by a process inside a system call, where     *)
(* IRQs are enabled, and by the IRQ handler.  There is one hart: a context *)
(* executes only while the other is not inside a call with IRQs masked (an *)
(* IRQ is taken only with PSTATE.I clear, and the handler runs to its end  *)
(* before the process goes on).  --pg->refcount is a load and a store.     *)
(* wfe in spin_lock returns.                                                *)

\* calls per behaviour
MaxPrOps == 3

nonPrPmmVars == <<vmmVars, schedVars, vqVars, cwVars, inVars, elfVars, wmVars,
                  twVars, kmVars, total_pages, pmm_out, pmm_ret, pmm_strays,
                  pmm_last>>

PrGoto(t, pc) == pr_pc' = [pr_pc EXCEPT ![t] = pc]

\* context t has the hart
Runnable(t) == \A u \in PrCtx \ {t} : pr_pc[u] # "idle" => ~pr_i[u]

\* the call goes on to take the lock of zone z for the locked section body
\* and continues at after
PrToLock(t, z, body) ==
  /\ PrGoto(t, "save")
  /\ pr_z' = [pr_z EXCEPT ![t] = z]
  /\ pr_next' = [pr_next EXCEPT ![t] = <<body, "idle">>]

\* msr daifset, #3 without effect
daifset_dropped(i) == i
\* msr daifset, #3
daifset(i) == TRUE

\* spin_lock_irqsave: mrs flags, daif
PrLockSave ==
  \E t \in PrCtx :
    /\ Runnable(t)
    /\ pr_pc[t] = "save"
    /\ pr_flags' = [pr_flags EXCEPT ![t] = pr_i[t]]
    /\ PrGoto(t, "mask")
    /\ UNCHANGED <<zones, page_array, free_pages, mem, pr_page, pr_rc, pr_z,
                   pr_next, pr_i, pr_lock, pr_n>>
    /\ UNCHANGED nonPrPmmVars

\* spin_lock_irqsave: msr daifset, #3
PrLockMask ==
  \E t \in PrCtx :
    /\ Runnable(t)
    /\ pr_pc[t] = "mask"
    /\ pr_i' = [pr_i EXCEPT ![t] = daifset(pr_i[t])]
    /\ PrGoto(t, "spin")
    /\ UNCHANGED <<zones, page_array, free_pages, mem, pr_page, pr_rc, pr_z,
                   pr_next, pr_flags, pr_lock, pr_n>>
    /\ UNCHANGED nonPrPmmVars

\* spin_lock: the loop ends when the lock word is 0
PrSpinLock ==
  \E t \in PrCtx :
    /\ Runnable(t)
    /\ pr_pc[t] = "spin"
    /\ pr_lock[pr_z[t]] = 0
    /\ pr_lock' = [pr_lock EXCEPT ![pr_z[t]] = 1]
    /\ PrGoto(t, pr_next[t][1])
    /\ UNCHANGED <<zones, page_array, free_pages, mem, pr_page, pr_rc, pr_z,
                   pr_next, pr_flags, pr_i, pr_n>>
    /\ UNCHANGED nonPrPmmVars

\* spin_unlock_irqrestore: spin_unlock
PrSpinUnlock ==
  \E t \in PrCtx :
    /\ Runnable(t)
    /\ pr_pc[t] = "unlock"
    /\ pr_lock' = [pr_lock EXCEPT ![pr_z[t]] = 0]
    /\ PrGoto(t, "restore")
    /\ UNCHANGED <<zones, page_array, free_pages, mem, pr_page, pr_rc, pr_z,
                   pr_next, pr_flags, pr_i, pr_n>>
    /\ UNCHANGED nonPrPmmVars

\* spin_unlock_irqrestore: msr daif, flags
PrUnlockRestore ==
  \E t \in PrCtx :
    /\ Runnable(t)
    /\ pr_pc[t] = "restore"
    /\ pr_i' = [pr_i EXCEPT ![t] = pr_flags[t]]
    /\ PrGoto(t, pr_next[t][2])
    /\ UNCHANGED <<zones, page_array, free_pages, mem, pr_page, pr_rc, pr_z,
                   pr_next, pr_flags, pr_lock, pr_n>>
    /\ UNCHANGED nonPrPmmVars

\* pmm_free_page up to the load of pg->refcount
PrFreeLoad ==
  \E t \in PrCtx :
  \E page \in {NULL} \cup ((MEMORY_BASE - 1) .. (MEMORY_BASE + total_pages)) :
    /\ Runnable(t)
    /\ pr_pc[t] = "idle"
    /\ pr_n < MaxPrOps
    /\ pr_n' = pr_n + 1
    /\ IF \/ page = NULL
          \/ page < MEMORY_BASE
          \/ phys_to_pfn(page - MEMORY_BASE) >= total_pages
       THEN UNCHANGED <<pr_pc, pr_page, pr_rc>>
       ELSE \E pfn \in {phys_to_pfn(page - MEMORY_BASE)} :
              IF page_reserved(page_array[pfn])
              THEN UNCHANGED <<pr_pc, pr_page, pr_rc>>
              ELSE /\ PrGoto(t, "store")
                   /\ pr_page' = [pr_page EXCEPT ![t] = pfn]
                   /\ pr_rc' = [pr_rc EXCEPT ![t] = page_array[pfn].refcount]
    /\ UNCHANGED <<zones, page_array, free_pages, mem, pr_z, pr_next,
                   pr_flags, pr_i, pr_lock>>
    /\ UNCHANGED nonPrPmmVars

\* the store of --pg->refcount, the test of the result and the choice of
\* the zone
PrFreeStore ==
  \E t \in PrCtx :
    /\ Runnable(t)
    /\ pr_pc[t] = "store"
    /\ \E rc \in {u32_dec(pr_rc[t])} :
         /\ page_array' = [page_array EXCEPT ![pr_page[t]].refcount = rc]
         /\ IF u32_gt0(rc)
            THEN PrGoto(t, "idle") /\ UNCHANGED <<pr_z, pr_next>>
            ELSE PrToLock(t, IF pr_page[t] < zones[ZONE_DMA].end_pfn
                             THEN ZONE_DMA ELSE ZONE_NORMAL, "fbody")
    /\ UNCHANGED <<zones, free_pages, mem, pr_page, pr_rc, pr_flags, pr_i,
                   pr_lock, pr_n>>
    /\ UNCHANGED nonPrPmmVars

\* the locked section of pmm_free_page
PrFreeLocked ==
  \E t \in PrCtx :
    /\ Runnable(t)
    /\ pr_pc[t] = "fbody"
    /\ \E z \in {pr_z[t]} :
         zones' = [zones EXCEPT
                     ![z].bitmap = bitmap_clear(zones[z].bitmap,
                                     IF z = ZONE_DMA THEN pr_page[t]
                                     ELSE pr_page[t] - zones[ZONE_DMA].end_pfn),
                     ![z].free_pages = zones[z].free_pages + 1]
    /\ PrGoto(t, "unlock")
    /\ pr_next' = [pr_next EXCEPT ![t][2] = "add"]
    /\ UNCHANGED <<page_array, free_pages, mem, pr_page, pr_rc, pr_z,
                   pr_flags, pr_i, pr_lock, pr_n>>
    /\ UNCHANGED nonPrPmmVars

\* __sync_fetch_and_add(&free_pages, 1)
PrFreeAdd ==
  \E t \in PrCtx :
    /\ Runnable(t)
    /\ pr_pc[t] = "add"
    /\ free_pages' = free_pages + 1
    /\ PrGoto(t, "idle")
    /\ UNCHANGED <<zones, page_array, mem, pr_page, pr_rc, pr_z, pr_next,
                   pr_flags, pr_i, pr_lock, pr_n>>
    /\ UNCHANGED nonPrPmmVars

\* pmm_alloc_page calls zone_alloc_page for the normal zone and, when that
\* returned NULL, for the DMA zone
PrAllocZone ==
  \E t \in PrCtx : \E z \in {ZONE_NORMAL, ZONE_DMA} :
    /\ Runnable(t)
    /\ IF z = ZONE_NORMAL THEN pr_pc[t] = "idle" /\ pr_n < MaxPrOps
                          ELSE pr_pc[t] = "dma"
    /\ pr_n' = IF z = ZONE_NORMAL THEN pr_n + 1 ELSE pr_n
    /\ PrToLock(t, z, "abody")
    /\ UNCHANGED <<zones, page_array, free_pages, mem, pr_page, pr_rc,
                   pr_flags, pr_i, pr_lock>>
    /\ UNCHANGED nonPrPmmVars

\* the locked section of zone_alloc_page
PrAllocLocked ==
  \E t \in PrCtx :
    /\ Runnable(t)
    /\ pr_pc[t] = "abody"
    /\ \E z \in {pr_z[t]} :
       \E pfn \in {bitmap_find_free(zones[z].bitmap, 0,
                     zones[z].end_pfn - zones[z].start_pfn)} :
         IF pfn < 0
         THEN /\ pr_next' = [pr_next EXCEPT ![t][2] =
                               IF z = ZONE_NORMAL THEN "dma" ELSE "idle"]
              /\ UNCHANGED <<zones, pr_page>>
         ELSE /\ zones' = [zones EXCEPT
                             ![z].bitmap = bitmap_set(zones[z].bitmap, pfn),
                             ![z].free_pages = zones[z].free_pages - 1]
              /\ pr_page' = [pr_page EXCEPT ![t] = zones[z].start_pfn + pfn]
              /\ pr_next' = [pr_next EXCEPT ![t][2] = "init"]
    /\ PrGoto(t, "unlock")
    /\ UNCHANGED <<page_array, free_pages, mem, pr_rc, pr_z, pr_flags, pr_i,
                   pr_lock, pr_n>>
    /\ UNCHANGED nonPrPmmVars

\* zone_alloc_page after the unlock: the descriptor and the memset
PrAllocInit ==
  \E t \in PrCtx :
    /\ Runnable(t)
    /\ pr_pc[t] = "init"
    /\ page_array' = [page_array EXCEPT
                        ![pr_page[t]] = [flags |-> {}, refcount |-> 1]]
    /\ mem' = [mem EXCEPT ![pr_page[t]] = ZeroPage]
    /\ PrGoto(t, "sub")
    /\ UNCHANGED <<zones, free_pages, pr_page, pr_rc, pr_z, pr_next, pr_flags,
                   pr_i, pr_lock, pr_n>>
    /\ UNCHANGED nonPrPmmVars

\* __sync_fetch_and_sub(&free_pages, 1)
PrAllocSub ==
  \E t \in PrCtx :
    /\ Runnable(t)
    /\ pr_pc[t] = "sub"
    /\ free_pages' = free_pages - 1
    /\ PrGoto(t, "idle")
    /\ UNCHANGED <<zones, page_array, mem, pr_page, pr_rc, pr_z, pr_next,
                   pr_flags, pr_i, pr_lock, pr_n>>
    /\ UNCHANGED nonPrPmmVars

NextPr ==
  \/ PrLockSave
  \/ PrLockMask
  \/ PrSpinLock
  \/ PrSpinUnlock
  \/ PrUnlockRestore
  \/ PrFreeLoad
  \/ PrFreeStore
  \/ PrFreeLocked
  \/ PrFreeAdd
  \/ PrAllocZone
  \/ PrAllocLocked
  \/ PrAllocInit
  \/ PrAllocSub

\* the allocator after n calls of pmm_alloc_page
RECURSIVE PrAllocated(_, _)
PrAllocated(st, n) ==
  IF n = 0 THEN st ELSE PrAllocated(pmm_alloc_page(st).st, n - 1)

\* after boot and after some frames were handed out: none, the normal zone,
\* or every frame
InitPr ==
  /\ \E n \in {0, NormalPages, DmaPages + NormalPages - KernelPages} :
     \E st \in {PrAllocated(pmm_init(DmaPages + NormalPages), n)} :
       PmmBoot(st, DmaPages + NormalPages,
               {MEMORY_BASE + p : p \in {q \in DOMAIN st.page_array :
                                          /\ ~page_reserved(st.page_array[q])
                                          /\ st.page_array[q].refcount = 1}})
  /\ VmmOff
  /\ SchedOff
  /\ VqOff
  /\ CwOff
  /\ InOff
  /\ ElfOff
  /\ WmOff
  /\ TwOff
  /\ KmOff
  /\ PrOff

SpecPr == InitPr /\ [][NextPr]_vars

\* positions between spin_lock and spin_unlock
PrHolding == {"fbody", "abody", "unlock"}

\* C33: a zone lock is held only with IRQs masked; a context that arrives at
\* spin_lock finds the lock free, the IRQ handler included; outside
\* spin_lock_irqsave .. spin_unlock_irqrestore every context has the
\* interrupt mask it had before, and no lock is held while no call is in
\* progress.
C33_ZoneLockNeverSpins ==
  /\ \A t \in PrCtx : pr_pc[t] \in PrHolding => pr_i[t]
  /\ \A z \in DOMAIN pr_lock :
       pr_lock[z] = 1 <=> \E t \in PrCtx : pr_pc[t] \in PrHolding /\ pr_z[t] = z
  /\ \A t \in PrCtx :
       (pr_pc[t] = "spin" /\ Runnable(t)) => pr_lock[pr_z[t]] = 0
  /\ \A t \in PrCtx :
       pr_pc[t] \notin (PrHolding \cup {"spin", "restore"}) =>
         pr_i[t] = (t = PrIrq)

\* the IRQ handler holds a zone lock while a process is inside a call
C33_Witness ==
  /\ pr_pc[PrIrq] = "unlock"
  /\ \E t \in PrCtx \ {PrIrq} : pr_pc[t] \notin {"idle", "save", "mask"}

\* clear bits of the two bitmaps
ClearBits ==
  {<<z, i>> \in {ZONE_DMA, ZONE_NORMAL} \X (0 .. (DmaPages + NormalPages)) :
     i \in DOMAIN zones[z].bitmap /\ zones[z].bitmap[i] = 0}

\* C40: while no allocator call is in progress, the global free count is the
\* number of clear bitmap bits and the sum of the free counts of the zones.
C40_FreeCountIsClearBits ==
  (\A t \in PrCtx : pr_pc[t] = "idle") =>
    /\ free_pages = Cardinality(ClearBits)
    /\ free_pages = zones[ZONE_DMA].free_pages + zones[ZONE_NORMAL].free_pages

----------------------------------------------------------------------------
(* Processes that exit or fault, among processes that go on.               *)

\* supervisor call from user code: exit or getpid
SvcExit == SyncEntry("svc", EC_SVC, {SYS_EXIT, 172})

NextExit ==
  \/ ProcessCreate
  \/ StartUserProcess
  \/ RaiseIrq
  \/ IrqEntry
  \/ IrqTimer
  \/ IrqDevice
  \/ IrqReturn
  \/ SvcExit
  \/ UserFault
  \/ SvcDispatch
  \/ SvcReturn

SpecExit == InitSched /\ [][NextExit]_vars

\* process p called exit or took a synchronous exception that is no
\* supervisor call
Gone(p) ==
  \/ svc[p].by = "abt"
  \/ svc[p].by = "svc" /\ svc[p].entry.x8 = SYS_EXIT

\* the hart is about to execute an instruction of user code
UserMode == sched_mode = "run" /\ ~in_irq /\ kstack[running] = <<>>

\* C31: a process that called exit or faulted stays in the kernel for ever:
\* it is never again in user mode, neither through its own frame nor as the
\* scheduler's current process; IRQs are enabled while it is parked, and
\* every timer tick moves the scheduler to the next slot of the pool.
C31_ExitedStaysParked ==
  [][/\ \A p \in DOMAIN svc :
          Gone(p) =>
            /\ svc'[p].by = svc[p].by
            /\ svc'[p].entry = svc[p].entry
            /\ ~(/\ sched_mode' = "run" /\ ~in_irq' /\ kstack'[running'] = <<>>
                 /\ (running' = p \/ current_process' = p))
            /\ (running' = p /\ ~in_irq' /\ sched_mode' = "run") => ~pstate_i'
     /\ jiffies' # jiffies =>
          current_pid' = next_slot(current_pid, process_count)]_vars

----------------------------------------------------------------------------
(* init_scheduler: each process is created and then loaded, and the result *)
(* of the load is used for a log line only.                                 *)

\* results of process_load_elf
LoadResults == {0, -1}

\* process_create(name) followed by process_load_elf(proc, path) = ret: the
\* process is in the pool with a zeroed frame at the top of its kernel stack
\* ("zero"), in which a load that succeeds puts the entry point ("init")
SpawnProcess ==
  \E ret \in LoadResults :
    /\ sched_mode = "boot"
    /\ process_count < MaxProc
    /\ LET pid == process_count + 1
           f == [owner |-> pid, serial |-> 0,
                 kind |-> IF ret = 0 THEN "init" ELSE "zero"]
       IN  /\ process_pool' = Append(process_pool, pid)
           /\ process_count' = process_count + 1
           /\ context' = Append(context, f)
           /\ kstack' = Append(kstack, <<f>>)
           /\ proc_state' = Append(proc_state, PROC_CREATED)
           /\ svc' = Append(svc, NoSvc)
    /\ UNCHANGED <<current_pid, current_process, running, in_irq, irq_regs,
                   ret_regs, pending, jiffies, restored, picks, entries,
                   sched_mode, ttbr0, esr_el1, pstate_i, gic_log>>
    /\ UNCHANGED nonSchedVars

\* the timer interrupts
RaiseTimer == RaiseLine({IRQ_TIMER_VIRT})

NextBoot ==
  \/ SpawnProcess
  \/ StartUserProcess
  \/ RaiseTimer
  \/ IrqEntry
  \/ IrqTimer
  \/ IrqReturn

SpecBoot == InitSched /\ [][NextBoot]_vars

\* C32: the process that start_user_process or schedule() makes current was
\* loaded: the frame through which it is entered holds the entry point of
\* its image or was saved on an exception entry, and no exception return
\* goes through the frame of a process whose load failed.
C32_FailedNeverScheduled ==
  [][/\ (current_process' # current_process /\ current_process' # NULL) =>
          /\ context'[current_process'].kind # "zero"
          /\ sched_mode = "run" => ret_regs'.kind # "zero"
     /\ restored' # restored => restored'.frame.kind # "zero"]_vars

====
